---- MODULE Spec2Model ----
(***************************************************************************)
(* Model of the PulseAI Lite anomaly-detection engine                      *)
(* (server/webrtc_hub/detector.py, class EnhancedAnomalyDetector) and of   *)
(* the WebRTC hub that feeds it (server/webrtc_hub/server.py, class Hub    *)
(* and the offer handler).                                                 *)
(*                                                                         *)
(* Numbers.  Metric values (CPU, Memory, ...) are integers.  Scores,       *)
(* confidences and thresholds are fixed-point integers in thousandths      *)
(* (1000 stands for 1.0).  The ensemble score is an exact fraction         *)
(* num/den of millionths, so that the comparisons the code makes on it     *)
(* are made on the exact value.                                            *)
(*                                                                         *)
(* Libraries.  pyod's ECOD and statsforecast's AutoARIMA are not part of   *)
(* the repository.  What they return to the detector (decision scores, an  *)
(* outlier verdict, a one-step forecast, or an exception raised at some    *)
(* statement of the surrounding try block) is an input of each detect call,*)
(* the record `lib`.                                                       *)
(*                                                                         *)
(* Strings.  The Korean literals of the source are written in ASCII:       *)
(* "주변장치 체크" is PERIPHERAL_CHECK, "실패" is FAILED, "연결" is CONNECTED.  *)
(***************************************************************************)
EXTENDS Integers, Sequences, FiniteSets, TLC

\* The detector's state (lines 98-108), the value returned by the latest
\* detect call, and the environment: `call` records the inputs of the latest
\* call and what the forecast detector did in it, `fd_evaluations` counts the
\* forecast evaluations of each (agent, metric), `calls` counts detect calls,
\* `steady` is the workload's regular call and `odd` counts the irregular ones.
VARIABLES buffers, peripheral_states, ecod_models, arima_models,
          arima_residuals, score_history, result, call, fd_evaluations,
          calls, odd, steady

\* The hub's state (server.py:39-42), the ClientState objects by identity
\* (`client_states`), the peer connections made by offer with what their
\* handlers closed over and what the event loop still owes them (`peers`),
\* and the latest hub operation (`hub_call`).
VARIABLES pcs, channels, clients, room_members, client_states, peers, hub_call

hub_vars == <<pcs, channels, clients, room_members, client_states, peers, hub_call>>

vars == <<buffers, peripheral_states, ecod_models, arima_models,
          arima_residuals, score_history, result, call, fd_evaluations,
          calls, odd, steady, hub_vars>>

detector_vars == <<buffers, peripheral_states, ecod_models, arima_models,
                   arima_residuals, score_history>>

workload_vars == <<detector_vars, result, call, fd_evaluations, calls, odd, steady>>

\* ------------------------------------------------------------------------
\* Program constants (detector.py:21-37)
\* ------------------------------------------------------------------------
WINDOW_SIZE == 60
MIN_SAMPLES_ECOD == 20
MIN_SAMPLES_ARIMA == 30
PERIPHERAL_FAILURE_THRESHOLD == 3
SCORE_HISTORY_MAXLEN == 100
RETRAIN_EVERY == 100
ECOD_WEIGHT == 6
ARIMA_WEIGHT == 4

PERIPHERAL_CHECK == "peripheral-check"
FAILED == "failed"
CONNECTED == "connected"

\* 1.0 in the fixed-point unit of scores and confidences.
ONE == 1000

\* ------------------------------------------------------------------------
\* Python helpers
\* ------------------------------------------------------------------------
\* dict.get(key, default)
Get(d, k, default) == IF k \in DOMAIN d THEN d[k] ELSE default

\* d[k] = v on a dict: the key is added when absent.
Put(d, k, v) == [x \in (DOMAIN d) \cup {k} |-> IF x = k THEN v ELSE d[x]]

\* Mutant: a full deque gives up its newest entry instead of its eldest.
DequeAppendDropNewest(q, x, maxlen) ==
    IF Len(q) < maxlen THEN Append(q, x) ELSE Append(SubSeq(q, 1, Len(q) - 1), x)

\* Mutant: a deque without maxlen.
DequeAppendUnbounded(q, x, maxlen) == Append(q, x)

\* deque(maxlen=n).append(x): the eldest entry is dropped when full.
DequeAppend(q, x, maxlen) ==
    IF Len(q) < maxlen THEN Append(q, x) ELSE Append(Tail(q), x)

Min(a, b) == IF a < b THEN a ELSE b
Max(a, b) == IF a > b THEN a ELSE b
Abs(a) == IF a < 0 THEN -a ELSE a

RECURSIVE SumFirst(_, _)
SumFirst(s, i) == IF i = 0 THEN 0 ELSE s[i] + SumFirst(s, i - 1)
SumSeq(s) == SumFirst(s, Len(s))

RECURSIVE SumSquaresFirst(_, _)
SumSquaresFirst(s, i) == IF i = 0 THEN 0 ELSE s[i] * s[i] + SumSquaresFirst(s, i - 1)
SumSquares(s) == SumSquaresFirst(s, Len(s))

\* floor(sqrt(n)) for 0 <= n < 2^30, by bisection on [lo, hi)
RECURSIVE ISqrtIn(_, _, _)
ISqrtIn(n, lo, hi) ==
    IF hi - lo <= 1 THEN lo
    ELSE LET mid == (lo + hi) \div 2
         IN  IF mid * mid <= n THEN ISqrtIn(n, mid, hi) ELSE ISqrtIn(n, lo, mid)
ISqrt(n) == ISqrtIn(n, 0, 32768)

\* int(a / b) of Python for b > 0: truncation towards zero.
IntTrunc(a, b) == IF a >= 0 THEN a \div b ELSE -((-a) \div b)

SelectEngine(detections, e) == SelectSeq(detections, LAMBDA d : d.engine = e)

\* ------------------------------------------------------------------------
\* MetricBuffer, PeripheralState
\* ------------------------------------------------------------------------
Channels == {"cpu", "memory", "disk_io", "network_sent", "network_recv", "timestamps"}

NewMetricBuffer == [c \in Channels |-> <<>>]

NewPeripheralState == [failure_counts |-> <<>>, last_states |-> <<>>]


AnomalyResult(engine, metric, value, score, threshold, severity, confidence, residual) ==
    [engine |-> engine, metric |-> metric, value |-> value, score |-> score,
     threshold |-> threshold, severity |-> severity, confidence |-> confidence,
     residual |-> residual]

\* Optional[float] = None
None == -1

\* ------------------------------------------------------------------------
\* _ensure_buffer, _update_buffer
\* ------------------------------------------------------------------------
\* One of the five per-agent dicts after _ensure_buffer(agent_id): the entry
\* `fresh` is created only when agent_id is not yet a key of self.buffers.
EnsureBuffer(d, agent_id, fresh) ==
    IF agent_id \in DOMAIN buffers THEN d ELSE Put(d, agent_id, fresh)

\* Mutant: an absent metric is recorded as None instead of 0.
ChannelValueNoDefault(data, c) ==
    CASE c = "cpu"          -> Get(data, "CPU", None)
      [] c = "memory"       -> Get(data, "Memory", None)
      [] c = "disk_io"      -> Get(data, "DiskIO", None)
      [] c = "network_sent" -> Get(Get(data, "Network", <<>>), "Sent", None)
      [] c = "network_recv" -> Get(Get(data, "Network", <<>>), "Recv", None)
      [] c = "timestamps"   -> Get(data, "Timestamp", "")

\* The value _update_buffer appends to each channel.
ChannelValue(data, c) ==
    CASE c = "cpu"          -> Get(data, "CPU", 0)
      [] c = "memory"       -> Get(data, "Memory", 0)
      [] c = "disk_io"      -> Get(data, "DiskIO", 0)
      [] c = "network_sent" -> Get(Get(data, "Network", <<>>), "Sent", 0)
      [] c = "network_recv" -> Get(Get(data, "Network", <<>>), "Recv", 0)
      [] c = "timestamps"   -> Get(data, "Timestamp", "")

\* Mutant: the sample is appended to the buffer of every agent.
UpdateBufferOfAll(agent_id, data) ==
    LET bufs == EnsureBuffer(buffers, agent_id, NewMetricBuffer)
    IN  [a \in DOMAIN bufs |->
            [c \in Channels |-> DequeAppend(bufs[a][c], ChannelValue(data, c), WINDOW_SIZE)]]

\* Mutant: a sample equal to the one buffered last is not buffered again.
UpdateBufferOnChange(agent_id, data) ==
    LET bufs == EnsureBuffer(buffers, agent_id, NewMetricBuffer)
        buf  == bufs[agent_id]
    IN  IF /\ Len(buf["cpu"]) > 0
           /\ \A c \in Channels : buf[c][Len(buf[c])] = ChannelValue(data, c)
          THEN bufs
          ELSE [bufs EXCEPT ![agent_id] =
                  [c \in Channels |->
                      DequeAppend(buf[c], ChannelValue(data, c), WINDOW_SIZE)]]

\* Mutant: the network channels are appended only when the sample has a
\* "Network" field.
UpdateBufferSkipNetwork(agent_id, data) ==
    LET bufs == EnsureBuffer(buffers, agent_id, NewMetricBuffer)
        buf  == bufs[agent_id]
    IN  [bufs EXCEPT ![agent_id] =
            [c \in Channels |->
                IF c \in {"network_sent", "network_recv"} /\ "Network" \notin DOMAIN data
                  THEN buf[c]
                  ELSE DequeAppend(buf[c], ChannelValue(data, c), WINDOW_SIZE)]]

UpdateBuffer(agent_id, data) ==
    LET bufs == EnsureBuffer(buffers, agent_id, NewMetricBuffer)
        buf  == bufs[agent_id]
    IN  [bufs EXCEPT ![agent_id] =
            [c \in Channels |-> DequeAppend(buf[c], ChannelValue(data, c), WINDOW_SIZE)]]

\* ------------------------------------------------------------------------
\* _get_dynamic_contamination (thousandths)
\* ------------------------------------------------------------------------
BASE_CONTAMINATION == 50

\* Mutant: the adjustment goes the other way, many high scores loosen
\* the model and few tighten it.
GetDynamicContaminationSwapped(history) ==
    IF Len(history) < 10 THEN BASE_CONTAMINATION
    ELSE LET high_scores == Cardinality({i \in 1..Len(history) : history[i] > 700})
         IN  IF 10 * high_scores > 3 * Len(history)
               THEN Min(100, BASE_CONTAMINATION + 20)
             ELSE IF 100 * high_scores < 5 * Len(history)
               THEN Max(10, BASE_CONTAMINATION - 20)
             ELSE BASE_CONTAMINATION

GetDynamicContamination(history) ==
    IF Len(history) < 10 THEN BASE_CONTAMINATION
    ELSE LET high_scores == Cardinality({i \in 1..Len(history) : history[i] > 700})
         IN  \* ratio = high_scores / len(scores)
             IF 10 * high_scores > 3 * Len(history)
               THEN Max(10, BASE_CONTAMINATION - 20)
             ELSE IF 100 * high_scores < 5 * Len(history)
               THEN Min(100, BASE_CONTAMINATION + 20)
             ELSE BASE_CONTAMINATION

\* ------------------------------------------------------------------------
\* _run_multivariate_ecod
\* ------------------------------------------------------------------------
\* Where an exception can be raised inside the try block (lines 159-235):
\*   "none"  no exception
\*   "fit"   building X or model.fit (lines 161-173): nothing was changed
\*   "score" decision_function / predict / normalisation (lines 179-185):
\*           the model is cached, the score history is not yet touched
\*   "emit"  building the multivariate AnomalyResult (lines 206-215): the
\*           score history has the new score, results is still empty
\*   "brk0", "brk1", "brk2"  in the breakdown loop, iteration 0, 1, 2
\*           (lines 223-235) before its append
EcodFailPoints == {"none", "fit", "score", "emit", "brk0", "brk1", "brk2"}

\* score_normalized (lines 183-184), in thousandths:
\*   (score - all_scores.min()) / (all_scores.max() - all_scores.min() + 1e-10)
\* score is decision_function(latest)[0] and all_scores is
\* decision_function(X): two calls of the library.  The 1e-10 decides the
\* quotient only when all_scores is constant; the calls modelled then have
\* score = all_scores.min().
ScoreNormalized(score, all_min, all_max) ==
    IF all_max = all_min /\ score = all_min THEN 0
    ELSE ((score - all_min) * ONE) \div (all_max - all_min)

\* Severity and confidence of the multivariate finding (lines 190-203).
EcodVerdict(is_outlier, score_normalized) ==
    IF is_outlier
      THEN IF score_normalized > 900 THEN [severity |-> "critical", confidence |-> 900]
           ELSE IF score_normalized > 700 THEN [severity |-> "warning", confidence |-> 700]
           ELSE [severity |-> "warning", confidence |-> 500]
      ELSE [severity |-> "normal", confidence |-> ONE - score_normalized]

CountLess(metric_data, value) ==
    Cardinality({i \in 1..Len(metric_data) : metric_data[i] < value})

\* k-th smallest entry (k from 0) of a non-empty sequence.
KthSmallest(metric_data, k) ==
    CHOOSE v \in {metric_data[i] : i \in 1..Len(metric_data)} :
        /\ CountLess(metric_data, v) <= k
        /\ k < Cardinality({i \in 1..Len(metric_data) : metric_data[i] <= v})

\* np.percentile(metric_data, 95), linear interpolation, in thousandths.
Interpolate(a, b, frac) == ONE * a + 10 * frac * (b - a)

Percentile95(metric_data) ==
    Interpolate(KthSmallest(metric_data, (95 * (Len(metric_data) - 1)) \div 100),
                KthSmallest(metric_data,
                            Min(Len(metric_data) - 1,
                                (95 * (Len(metric_data) - 1)) \div 100 + 1)),
                (95 * (Len(metric_data) - 1)) % 100)

\* One per-metric breakdown finding (lines 221-235).
\* percentile = cnt / n; metric_score = abs(percentile - 0.5) * 2
EcodBreakdownFrom(name, value, n, cnt, threshold, confidence) ==
    AnomalyResult("ecod", name, value, (ONE * Abs(2 * cnt - n)) \div n, threshold,
                  IF 10 * Abs(2 * cnt - n) > 8 * n THEN "warning" ELSE "normal",
                  (confidence * 8) \div 10, None)

EcodBreakdown(name, metric_data, confidence) ==
    EcodBreakdownFrom(name, metric_data[Len(metric_data)], Len(metric_data),
                      CountLess(metric_data, metric_data[Len(metric_data)]),
                      Percentile95(metric_data), confidence)

\* The multivariate finding (lines 206-215).
EcodMultivariate(e, contamination, verdict) ==
    AnomalyResult("ecod", "Multivariate", e.score,
                  ScoreNormalized(e.score, e.all_min, e.all_max), contamination,
                  verdict.severity, verdict.confidence, None)

\* buf: the agent's MetricBuffer; history: its score_history; e: what ECOD
\* does in this call, [fail, score, all_min, all_max, outlier].
\* Returns the findings, the new score history and whether a model was cached.
RunMultivariateEcod(buf, history, e) ==
    IF Len(buf["cpu"]) < MIN_SAMPLES_ECOD
      THEN [results |-> <<>>, history |-> history, cached |-> FALSE]
    ELSE
      LET multi == EcodMultivariate(e, GetDynamicContamination(history),
                                    EcodVerdict(e.outlier,
                                                ScoreNormalized(e.score, e.all_min, e.all_max)))
          b0 == EcodBreakdown("CPU", buf["cpu"], multi.confidence)
          b1 == EcodBreakdown("Memory", buf["memory"], multi.confidence)
          b2 == EcodBreakdown("DiskIO", buf["disk_io"], multi.confidence)
          appended == DequeAppend(history, ScoreNormalized(e.score, e.all_min, e.all_max),
                                  SCORE_HISTORY_MAXLEN)
      IN  CASE e.fail = "fit"   -> [results |-> <<>>, history |-> history, cached |-> FALSE]
            [] e.fail = "score" -> [results |-> <<>>, history |-> history, cached |-> TRUE]
            [] e.fail = "emit"  -> [results |-> <<>>, history |-> appended, cached |-> TRUE]
            [] e.fail = "brk0"  -> [results |-> <<multi>>, history |-> appended, cached |-> TRUE]
            [] e.fail = "brk1"  -> [results |-> <<multi, b0>>, history |-> appended, cached |-> TRUE]
            [] e.fail = "brk2"  -> [results |-> <<multi, b0, b1>>, history |-> appended, cached |-> TRUE]
            [] e.fail = "none"  -> [results |-> <<multi, b0, b1, b2>>, history |-> appended, cached |-> TRUE]

\* ------------------------------------------------------------------------
\* _run_cached_arima
\* ------------------------------------------------------------------------
\* Where an exception can be raised inside the try block (lines 247-357):
\*   "none"    no exception
\*   "fit"     building df or sf.fit (lines 248-272 / 278): a new model is not
\*             stored, a cached one stays
\*   "predict" sf.predict and the forecast (lines 286-294): a newly trained
\*             model is already stored (line 273), no residual is recorded
\*   "post"    after the residual was appended (lines 302-357)
ArimaFailPoints == {"none", "fit", "predict", "post"}

\* Threshold, score, severity and confidence from the residual window that
\* already holds the current residual (lines 301-321).  With x the window,
\* n = len(x), S = sum(x), Q = sum(x^2): n^2 * var(x) = n*Q - S^2 = D, so
\* 2.5 * std(x) = 5 * sqrt(D) / (2n).  The comparisons with the residual are
\* made exactly; the reported threshold and score are rounded down to tenths.
ArimaVerdictFrom(residual, n, S, Q) ==
    LET D == n * Q - S * S
        long == n > 5
        \* threshold = max(2.5 * std, 0.1)   resp.   2 * mean, or 1.0 when empty
        floored == long /\ 625 * D <= n * n          \* 2.5 * std <= 0.1
        threshold ==
            IF long THEN Max(100 * ISqrt((625 * D) \div (n * n)), 100)
            ELSE IF n > 0 THEN (2 * ONE * S) \div n
            ELSE ONE
        above ==                                     \* residual > threshold
            IF long THEN 10 * residual > 1 /\ 4 * residual * residual * n * n > 25 * D
            ELSE IF n > 0 THEN residual * n > 2 * S
            ELSE residual > 1
        far_above ==                                 \* residual > threshold * 1.5
            IF long THEN 100 * residual > 15 /\ 16 * residual * residual * n * n > 225 * D
            ELSE IF n > 0 THEN residual * n > 3 * S
            ELSE 10 * residual > 15
        \* score = residual / max(threshold, 0.01)
        score ==
            IF long
              THEN IF floored THEN 10 * ONE * residual
                   ELSE 100 * ISqrt((16 * residual * residual * n * n) \div D)
            ELSE IF n > 0
              THEN IF S > 0 THEN (ONE * residual * n) \div (2 * S)
                   ELSE 100 * ONE * residual
            ELSE ONE * residual
    IN  [threshold |-> threshold, score |-> score,
         severity |-> IF far_above THEN "critical"
                      ELSE IF above THEN "warning" ELSE "normal",
         confidence |-> IF far_above THEN Min(950, score \div 2)
                        ELSE IF above THEN Min(800, score \div 2)
                        ELSE ONE - Min(900, score)]

\* Mutant: with at most 5 residuals the threshold is the default 1.0.
ArimaVerdictDefaultThreshold(residual, residual_history) ==
    IF Len(residual_history) > 5
      THEN ArimaVerdictFrom(residual, Len(residual_history), SumSeq(residual_history),
                            SumSquares(residual_history))
      ELSE ArimaVerdictFrom(residual, 0, 0, 0)

\* Mutant: the threshold is computed from the residual window as it was
\* before the current residual was appended.
ArimaVerdictBeforeAppend(residual, residual_history) ==
    ArimaVerdictFrom(residual, Len(residual_history) - 1,
                     SumSeq(residual_history) - residual,
                     SumSquares(residual_history) - residual * residual)

ArimaVerdict(residual, residual_history) ==
    ArimaVerdictFrom(residual, Len(residual_history), SumSeq(residual_history),
                     SumSquares(residual_history))

\* A StatsForecast object, identified by the series length it was built for.
NewArimaModel(n) == [selected_at |-> n]

ArimaFinding(metric_name, actual_value, residual, v) ==
    AnomalyResult("arima", metric_name, actual_value, v.score, v.threshold,
                  v.severity, v.confidence, residual)

\* values: the metric's channel; models, residuals: the agent's entries of
\* arima_models and arima_residuals; m: what AutoARIMA does in this call,
\* [fail, delta], its one-step forecast being actual_value + delta.
\* Returns the finding (a sequence of length 0 or 1), the two dicts, and
\* whether the call was evaluated and chose to train a new model.
RunCachedArima(metric_name, values, models, residuals, m) ==
    IF Len(values) < MIN_SAMPLES_ARIMA
      THEN [result |-> <<>>, models |-> models, residuals |-> residuals,
            evaluated |-> FALSE, need_retrain |-> FALSE]
    ELSE
      LET need_retrain ==
              IF metric_name \notin DOMAIN models THEN TRUE
              ELSE Len(values) % RETRAIN_EVERY = 0
          trained == IF need_retrain
                       THEN Put(models, metric_name, NewArimaModel(Len(values)))
                       ELSE models
          actual_value   == values[Len(values)]
          forecast_value == actual_value + m.delta
          residual       == Abs(actual_value - forecast_value)
          window == DequeAppend(Get(residuals, metric_name, <<>>), residual, WINDOW_SIZE)
          recorded == Put(residuals, metric_name, window)
          finding == ArimaFinding(metric_name, actual_value, residual,
                                  ArimaVerdict(residual, window))
      IN  CASE m.fail = "fit" ->
                 [result |-> <<>>, models |-> models, residuals |-> residuals,
                  evaluated |-> TRUE, need_retrain |-> need_retrain]
            [] m.fail = "predict" ->
                 [result |-> <<>>, models |-> trained, residuals |-> residuals,
                  evaluated |-> TRUE, need_retrain |-> need_retrain]
            [] m.fail = "post" ->
                 [result |-> <<>>, models |-> trained, residuals |-> recorded,
                  evaluated |-> TRUE, need_retrain |-> need_retrain]
            [] m.fail = "none" ->
                 [result |-> <<finding>>, models |-> trained, residuals |-> recorded,
                  evaluated |-> TRUE, need_retrain |-> need_retrain]

\* ------------------------------------------------------------------------
\* _check_peripherals
\* ------------------------------------------------------------------------
\* A log entry is a dict with optional keys "BodyType" and "KeyValues";
\* KeyValues, a dict iterated in insertion order, is a sequence of
\* <<device, status>> pairs with distinct devices.

\* The finding emitted for a failure count that reached the threshold.
PeripheralFinding(device, count) ==
    AnomalyResult("peripheral", device, count, Min(ONE, (ONE * count) \div 10),
                  PERIPHERAL_FAILURE_THRESHOLD,
                  IF count >= 5 THEN "critical" ELSE "warning", 950, None)

\* Mutant: a connected status does not reset the failure count.
PeripheralStepNoReset(acc, device, status) ==
    LET last == Put(acc.state.last_states, device, status)
        fc   == acc.state.failure_counts
    IN  IF status = FAILED
          THEN LET count == Get(fc, device, 0) + 1
               IN  [state   |-> [failure_counts |-> Put(fc, device, count), last_states |-> last],
                    results |-> IF count >= PERIPHERAL_FAILURE_THRESHOLD
                                  THEN Append(acc.results, PeripheralFinding(device, count))
                                  ELSE acc.results]
        ELSE [state |-> [failure_counts |-> fc, last_states |-> last], results |-> acc.results]

\* Mutant: the finding is emitted one failure early.
PeripheralStepEarly(acc, device, status) ==
    LET last == Put(acc.state.last_states, device, status)
        fc   == acc.state.failure_counts
    IN  IF status = FAILED
          THEN LET count == Get(fc, device, 0) + 1
               IN  [state   |-> [failure_counts |-> Put(fc, device, count), last_states |-> last],
                    results |-> IF count >= PERIPHERAL_FAILURE_THRESHOLD - 1
                                  THEN Append(acc.results, PeripheralFinding(device, count))
                                  ELSE acc.results]
        ELSE IF status = CONNECTED
          THEN [state   |-> [failure_counts |-> Put(fc, device, 0), last_states |-> last],
                results |-> acc.results]
        ELSE [state |-> [failure_counts |-> fc, last_states |-> last], results |-> acc.results]

\* Mutant: the finding is emitted only above the threshold.
PeripheralStepLate(acc, device, status) ==
    LET last == Put(acc.state.last_states, device, status)
        fc   == acc.state.failure_counts
    IN  IF status = FAILED
          THEN LET count == Get(fc, device, 0) + 1
               IN  [state   |-> [failure_counts |-> Put(fc, device, count), last_states |-> last],
                    results |-> IF count > PERIPHERAL_FAILURE_THRESHOLD
                                  THEN Append(acc.results, PeripheralFinding(device, count))
                                  ELSE acc.results]
        ELSE IF status = CONNECTED
          THEN [state   |-> [failure_counts |-> Put(fc, device, 0), last_states |-> last],
                results |-> acc.results]
        ELSE [state |-> [failure_counts |-> fc, last_states |-> last], results |-> acc.results]

\* Mutant: only strictly consecutive failures count, a failed status that
\* follows any other status starts again from 1.
PeripheralStepConsecutive(acc, device, status) ==
    LET prev_status == Get(acc.state.last_states, device, FAILED)
        last == Put(acc.state.last_states, device, status)
        fc   == acc.state.failure_counts
    IN  IF status = FAILED
          THEN LET count == IF prev_status = FAILED THEN Get(fc, device, 0) + 1 ELSE 1
               IN  [state   |-> [failure_counts |-> Put(fc, device, count), last_states |-> last],
                    results |-> IF count >= PERIPHERAL_FAILURE_THRESHOLD
                                  THEN Append(acc.results, PeripheralFinding(device, count))
                                  ELSE acc.results]
        ELSE IF status = CONNECTED
          THEN [state   |-> [failure_counts |-> Put(fc, device, 0), last_states |-> last],
                results |-> acc.results]
        ELSE [state |-> [failure_counts |-> fc, last_states |-> last], results |-> acc.results]

\* Mutant: every status other than failed clears the failure count.
PeripheralStepOtherResets(acc, device, status) ==
    LET last == Put(acc.state.last_states, device, status)
        fc   == acc.state.failure_counts
    IN  IF status = FAILED
          THEN LET count == Get(fc, device, 0) + 1
               IN  [state   |-> [failure_counts |-> Put(fc, device, count), last_states |-> last],
                    results |-> IF count >= PERIPHERAL_FAILURE_THRESHOLD
                                  THEN Append(acc.results, PeripheralFinding(device, count))
                                  ELSE acc.results]
        ELSE [state   |-> [failure_counts |-> Put(fc, device, 0), last_states |-> last],
              results |-> acc.results]

\* The body of the inner loop (lines 378-400) for one (device, status).
PeripheralStep(acc, device, status) ==
    LET last == Put(acc.state.last_states, device, status)
        fc   == acc.state.failure_counts
    IN  IF status = FAILED
          THEN LET count == Get(fc, device, 0) + 1
               IN  [state   |-> [failure_counts |-> Put(fc, device, count), last_states |-> last],
                    results |-> IF count >= PERIPHERAL_FAILURE_THRESHOLD
                                  THEN Append(acc.results, PeripheralFinding(device, count))
                                  ELSE acc.results]
        ELSE IF status = CONNECTED
          THEN [state   |-> [failure_counts |-> Put(fc, device, 0), last_states |-> last],
                results |-> acc.results]
        ELSE [state |-> [failure_counts |-> fc, last_states |-> last], results |-> acc.results]

RECURSIVE PeripheralKeyValues(_, _)
PeripheralKeyValues(acc, key_values) ==
    IF key_values = <<>> THEN acc
    ELSE PeripheralKeyValues(PeripheralStep(acc, Head(key_values)[1], Head(key_values)[2]),
                             Tail(key_values))

RECURSIVE PeripheralLogs(_, _)
PeripheralLogs(acc, logs) ==
    IF logs = <<>> THEN acc
    ELSE LET log_entry == Head(logs)
             next == IF Get(log_entry, "BodyType", "") = PERIPHERAL_CHECK
                       THEN PeripheralKeyValues(acc, Get(log_entry, "KeyValues", <<>>))
                       ELSE acc
         IN  PeripheralLogs(next, Tail(logs))

\* state: the agent's PeripheralState.  Returns [state, results].
CheckPeripherals(state, data) ==
    PeripheralLogs([state |-> state, results |-> <<>>], Get(data, "Logs", <<>>))

\* ------------------------------------------------------------------------
\* _calculate_ensemble_score
\* ------------------------------------------------------------------------
RECURSIVE WeightedScores(_)
WeightedScores(ds) ==
    IF ds = <<>> THEN 0 ELSE Head(ds).score * Head(ds).confidence + WeightedScores(Tail(ds))

\* Mutant: the findings are not filtered by engine.
CalculateEnsembleScoreUnfiltered(detections) ==
    LET S == WeightedScores(detections)
        n == Len(detections)
        ensemble == IF n > 0 THEN [num |-> S, den |-> n] ELSE [num |-> 0, den |-> 1]
    IN  [score |-> ensemble,
         severity |-> IF ensemble.num > 800000 * ensemble.den THEN "critical"
                      ELSE IF ensemble.num > 500000 * ensemble.den THEN "warning"
                      ELSE "normal"]

\* Mutant: the severity boundaries belong to the higher severity.
CalculateEnsembleScoreInclusive(detections) ==
    LET ecod   == SelectEngine(detections, "ecod")
        arima  == SelectEngine(detections, "arima")
        ensemble ==
            IF Len(ecod) > 0 /\ Len(arima) > 0
              THEN [num |-> ECOD_WEIGHT * WeightedScores(ecod) * Len(arima)
                              + ARIMA_WEIGHT * WeightedScores(arima) * Len(ecod),
                    den |-> 10 * Len(ecod) * Len(arima)]
            ELSE IF Len(ecod) > 0 THEN [num |-> WeightedScores(ecod), den |-> Len(ecod)]
            ELSE IF Len(arima) > 0 THEN [num |-> WeightedScores(arima), den |-> Len(arima)]
            ELSE [num |-> 0, den |-> 1]
    IN  [score |-> ensemble,
         severity |-> IF ensemble.num >= 800000 * ensemble.den THEN "critical"
                      ELSE IF ensemble.num >= 500000 * ensemble.den THEN "warning"
                      ELSE "normal"]

\* Mutant: the two engines weigh the same.
CalculateEnsembleScoreEvenWeights(detections) ==
    LET ecod   == SelectEngine(detections, "ecod")
        arima  == SelectEngine(detections, "arima")
        ensemble ==
            IF Len(ecod) > 0 /\ Len(arima) > 0
              THEN [num |-> 5 * WeightedScores(ecod) * Len(arima)
                              + 5 * WeightedScores(arima) * Len(ecod),
                    den |-> 10 * Len(ecod) * Len(arima)]
            ELSE IF Len(ecod) > 0 THEN [num |-> WeightedScores(ecod), den |-> Len(ecod)]
            ELSE IF Len(arima) > 0 THEN [num |-> WeightedScores(arima), den |-> Len(arima)]
            ELSE [num |-> 0, den |-> 1]
    IN  [score |-> ensemble,
         severity |-> IF ensemble.num > 800000 * ensemble.den THEN "critical"
                      ELSE IF ensemble.num > 500000 * ensemble.den THEN "warning"
                      ELSE "normal"]

\* The ensemble score as the exact fraction num/den, in millionths
\* (score * confidence of two thousandths), and the overall severity.
CalculateEnsembleScore(detections) ==
    LET ecod   == SelectEngine(detections, "ecod")
        arima  == SelectEngine(detections, "arima")
        Se == WeightedScores(ecod)
        Sa == WeightedScores(arima)
        ne == Len(ecod)
        na == Len(arima)
        ensemble ==
            IF ne > 0 /\ na > 0
              THEN [num |-> ECOD_WEIGHT * Se * na + ARIMA_WEIGHT * Sa * ne, den |-> 10 * ne * na]
            ELSE IF ne > 0 THEN [num |-> Se, den |-> ne]
            ELSE IF na > 0 THEN [num |-> Sa, den |-> na]
            ELSE [num |-> 0, den |-> 1]
        severity ==
            IF ensemble.num > 800000 * ensemble.den THEN "critical"
            ELSE IF ensemble.num > 500000 * ensemble.den THEN "warning"
            ELSE "normal"
    IN  [score |-> ensemble, severity |-> severity]

\* The ensemble finding appended when both engines reported (lines 485-495).
EnsembleFinding(ensemble_score, ensemble_severity) ==
    AnomalyResult("ensemble", "Combined", ensemble_score, ensemble_score, 500,
                  ensemble_severity,
                  IF ensemble_score.num > 700000 * ensemble_score.den THEN 900 ELSE 700,
                  None)

\* ------------------------------------------------------------------------
\* Health score (lines 497-504)
\* ------------------------------------------------------------------------
RECURSIVE Deductions(_)
Deductions(ds) ==
    IF ds = <<>> THEN 0
    ELSE (IF Head(ds).severity = "critical" THEN IntTrunc(20 * Head(ds).confidence, ONE)
          ELSE IF Head(ds).severity = "warning" THEN IntTrunc(10 * Head(ds).confidence, ONE)
          ELSE 0) + Deductions(Tail(ds))

\* Mutant: the health score is not clamped.
HealthScoreUnclamped(detections) == 100 - Deductions(detections)

\* Mutant: the ensemble finding deducts nothing.
HealthScoreWithoutEnsemble(detections) ==
    Max(0, Min(100, 100 - Deductions(SelectSeq(detections,
                                               LAMBDA d : d.engine # "ensemble"))))

HealthScore(detections) == Max(0, Min(100, 100 - Deductions(detections)))

RawMetrics(data) ==
    [CPU         |-> Get(data, "CPU", 0),
     Memory      |-> Get(data, "Memory", 0),
     DiskIO      |-> Get(data, "DiskIO", 0),
     NetworkSent |-> Get(Get(data, "Network", <<>>), "Sent", 0),
     NetworkRecv |-> Get(Get(data, "Network", <<>>), "Recv", 0)]

\* ------------------------------------------------------------------------
\* detect
\* ------------------------------------------------------------------------
NoResult == [kind |-> "none"]
NoCall == [kind |-> "none"]

Metrics == <<"CPU", "Memory">>
MetricChannel(metric_name) == IF metric_name = "CPU" THEN "cpu" ELSE "memory"

\* 2. Cached AutoARIMA: CPU, then Memory on the dicts CPU left (lines 468-472).
ArimaThenMemory(cpu, buf, lib) ==
    [cpu |-> cpu,
     memory |-> RunCachedArima("Memory", buf["memory"], cpu.models, cpu.residuals,
                               lib.memory)]

RunArima(run_arima, buf, models, residuals, lib) ==
    IF run_arima
      THEN ArimaThenMemory(RunCachedArima("CPU", buf["cpu"], models, residuals, lib.cpu),
                           buf, lib)
      ELSE LET skipped == [result |-> <<>>, models |-> models, residuals |-> residuals,
                           evaluated |-> FALSE, need_retrain |-> FALSE]
           IN  [cpu |-> skipped, memory |-> skipped]

\* Mutant: the score history is a list, it keeps every score.
RunEcodKeepsAll(run_ecod, buf, history, lib) ==
    IF run_ecod
      THEN [RunMultivariateEcod(buf, history, lib.ecod) EXCEPT !.history =
               IF Len(buf["cpu"]) >= MIN_SAMPLES_ECOD /\ lib.ecod.fail \notin {"fit", "score"}
                 THEN Append(history, ScoreNormalized(lib.ecod.score, lib.ecod.all_min,
                                                      lib.ecod.all_max))
                 ELSE history]
      ELSE [results |-> <<>>, history |-> history, cached |-> FALSE]

\* Mutant: ECOD runs one sample early.
RunEcodEarly(run_ecod, buf, history, lib) ==
    IF run_ecod /\ Len(buf["cpu"]) >= MIN_SAMPLES_ECOD - 1
      THEN [results |-> <<EcodMultivariate(lib.ecod, GetDynamicContamination(history),
                                           EcodVerdict(lib.ecod.outlier, 950))>>,
            history |-> DequeAppend(history, 950, SCORE_HISTORY_MAXLEN),
            cached |-> TRUE]
      ELSE [results |-> <<>>, history |-> history, cached |-> FALSE]

\* 1. Multivariate ECOD (lines 463-465)
RunEcod(run_ecod, buf, history, lib) ==
    IF run_ecod THEN RunMultivariateEcod(buf, history, lib.ecod)
    ELSE [results |-> <<>>, history |-> history, cached |-> FALSE]

\* Mutant: the ensemble finding is put first.
WithEnsembleFirst(detections, ens) ==
    IF Len(SelectEngine(detections, "ecod")) > 0 /\ Len(SelectEngine(detections, "arima")) > 0
      THEN <<EnsembleFinding(ens.score, ens.severity)>> \o detections
      ELSE detections

\* Mutant: the ensemble finding is appended when either engine reported.
WithEnsembleEither(detections, ens) ==
    IF Len(SelectEngine(detections, "ecod")) > 0 \/ Len(SelectEngine(detections, "arima")) > 0
      THEN Append(detections, EnsembleFinding(ens.score, ens.severity))
      ELSE detections

\* 4. The ensemble finding is appended when both engines reported (lines 481-495).
WithEnsemble(detections, ens) ==
    IF Len(SelectEngine(detections, "ecod")) > 0 /\ Len(SelectEngine(detections, "arima")) > 0
      THEN Append(detections, EnsembleFinding(ens.score, ens.severity))
      ELSE detections

DetectionResult(agent_id, data, detections, ensemble_score) ==
    [kind           |-> "DetectionResult",
     agent_id       |-> agent_id,
     timestamp      |-> Get(data, "Timestamp", ""),
     detections     |-> detections,
     health_score   |-> HealthScore(detections),
     raw_metrics    |-> RawMetrics(data),
     ensemble_score |-> ensemble_score]

\* Steps 4 to 6 of detect on the findings of the three detectors.
DetectReturn(agent_id, data, detections) ==
    DetectionResult(agent_id, data,
                    WithEnsemble(detections, CalculateEnsembleScore(detections)),
                    CalculateEnsembleScore(detections).score)

CountEvaluations(evaluations, agent_id, arima) ==
    [EnsureBuffer(evaluations, agent_id, [CPU |-> 0, Memory |-> 0]) EXCEPT ![agent_id] =
        [CPU    |-> @.CPU + (IF arima.cpu.evaluated THEN 1 ELSE 0),
         Memory |-> @.Memory + (IF arima.memory.evaluated THEN 1 ELSE 0)]]

\* What the environment remembers of a call: its inputs, the agent's window
\* length and peripheral state before it, and what the forecast detector did.
CallRecord(agent_id, data, run_ecod, run_arima, lib, arima) ==
    [kind |-> "detect", agent_id |-> agent_id, data |-> data,
     run_ecod |-> run_ecod, run_arima |-> run_arima, lib |-> lib,
     before |-> [window |-> Len(EnsureBuffer(buffers, agent_id, NewMetricBuffer)[agent_id]["cpu"]),
                 models |-> EnsureBuffer(arima_models, agent_id, <<>>)[agent_id],
                 peripheral |-> EnsureBuffer(peripheral_states, agent_id,
                                             NewPeripheralState)[agent_id]],
     evaluated |-> [CPU |-> arima.cpu.evaluated, Memory |-> arima.memory.evaluated],
     need_retrain |-> [CPU |-> arima.cpu.need_retrain,
                       Memory |-> arima.memory.need_retrain]]

\* The state after the three detectors ran on the updated buffer.
DetectWith(agent_id, data, run_ecod, run_arima, lib, bufs, ecod, arima, periph) ==
    /\ buffers' = bufs
    /\ peripheral_states' =
          Put(peripheral_states, agent_id, periph.state)
    /\ ecod_models' = IF ecod.cached THEN ecod_models \cup {agent_id} ELSE ecod_models
    /\ arima_models' = Put(arima_models, agent_id, arima.memory.models)
    /\ arima_residuals' = Put(arima_residuals, agent_id, arima.memory.residuals)
    /\ score_history' = Put(score_history, agent_id, ecod.history)
    /\ result' = DetectReturn(agent_id, data,
                              ecod.results \o arima.cpu.result \o arima.memory.result
                                  \o periph.results)
    /\ call' = CallRecord(agent_id, data, run_ecod, run_arima, lib, arima)
    /\ fd_evaluations' = CountEvaluations(fd_evaluations, agent_id, arima)
    /\ calls' = calls + 1
    /\ UNCHANGED hub_vars

\* The per-agent entries the detectors read: _ensure_buffer created them
\* when the agent was new (lines 112-117).
DetectAgent(agent_id, data, run_ecod, run_arima, lib, bufs) ==
    DetectWith(agent_id, data, run_ecod, run_arima, lib, bufs,
               RunEcod(run_ecod, bufs[agent_id],
                       EnsureBuffer(score_history, agent_id, <<>>)[agent_id], lib),
               RunArima(run_arima, bufs[agent_id],
                        EnsureBuffer(arima_models, agent_id, <<>>)[agent_id],
                        EnsureBuffer(arima_residuals, agent_id, <<>>)[agent_id], lib),
               CheckPeripherals(
                   EnsureBuffer(peripheral_states, agent_id, NewPeripheralState)[agent_id],
                   data))

\* detect(data, run_ecod, run_arima), with lib what the two libraries do in
\* this call.  The whole of lines 444-513.
Detect(data, run_ecod, run_arima, lib) ==
    DetectAgent(Get(data, "AgentId", "unknown"), data, run_ecod, run_arima, lib,
                UpdateBuffer(Get(data, "AgentId", "unknown"), data))


\* ------------------------------------------------------------------------
\* Hub (server.py:37-74)
\* ------------------------------------------------------------------------
\* dict.pop(key, None)
Pop(d, k) == [x \in (DOMAIN d) \ {k} |-> d[x]]

\* No peer connection / no ClientState.
NoPc == 0

\* ClientState(client_id=client_id) (lines 30-34)
ClientState(client_id) == [client_id |-> client_id, role |-> "unknown", rooms |-> {}]

\* Hub.__init__ (lines 38-42), no ClientState object and no peer connection
\* made yet.
NewHub ==
    /\ pcs = <<>>
    /\ channels = <<>>
    /\ clients = <<>>
    /\ room_members = <<>>
    /\ client_states = <<>>
    /\ peers = <<>>
    /\ hub_call = [kind |-> "none"]

\* The hub, the ClientState objects and the peer connections as one value,
\* passed through the methods below.
World ==
    [pcs |-> pcs, channels |-> channels, clients |-> clients,
     room_members |-> room_members, client_states |-> client_states, peers |-> peers]

\* The identity given to a new ClientState object: one that no live object
\* has.
FreshObject(s) ==
    CHOOSE o \in 1..(Cardinality(DOMAIN s.client_states) + 1) :
        /\ o \notin DOMAIN s.client_states
        /\ \A x \in 1..(o - 1) : x \in DOMAIN s.client_states

\* Objects that neither hub.clients nor a handler's closure refers to are
\* dropped.
Collect(s) ==
    [s EXCEPT !.client_states =
        [o \in {x \in DOMAIN s.client_states :
                   \/ \E c \in DOMAIN s.clients : s.clients[c] = x
                   \/ \E p \in DOMAIN s.peers : s.peers[p].st = x}
            |-> s.client_states[o]]]

\* Hub._ensure_client (lines 47-50)
EnsureClient(s, client_id) ==
    IF client_id \in DOMAIN s.clients THEN s
    ELSE [s EXCEPT !.clients = Put(@, client_id, FreshObject(s)),
                   !.client_states = Put(@, FreshObject(s), ClientState(client_id))]

\* Hub._add_to_room (lines 52-54)
AddToRoomKnown(s, client_id, room) ==
    [s EXCEPT !.client_states[s.clients[client_id]].rooms = @ \cup {room},
              !.room_members = Put(@, room, Get(@, room, {}) \cup {client_id})]

AddToRoom(s, client_id, room) == AddToRoomKnown(EnsureClient(s, client_id), client_id, room)

\* Mutant: a member set that became empty stays in room_members.
DiscardMemberKeepsRoom(members_of, room, client_id) ==
    IF room \in DOMAIN members_of /\ members_of[room] # {}
      THEN [members_of EXCEPT ![room] = @ \ {client_id}]
      ELSE members_of

\* members = room_members.get(room); if members: members.discard(client_id);
\* if not members: room_members.pop(room, None)   (lines 61-65, 207-211)
DiscardMember(members_of, room, client_id) ==
    IF room \in DOMAIN members_of /\ members_of[room] # {}
      THEN IF members_of[room] \ {client_id} = {}
             THEN Pop(members_of, room)
             ELSE [members_of EXCEPT ![room] = @ \ {client_id}]
      ELSE members_of

RECURSIVE DiscardFromRooms(_, _, _)
DiscardFromRooms(members_of, rooms, client_id) ==
    IF rooms = {} THEN members_of
    ELSE LET room == CHOOSE r \in rooms : TRUE
         IN  DiscardFromRooms(DiscardMember(members_of, room, client_id),
                              rooms \ {room}, client_id)

\* Hub._remove_from_all_rooms (lines 56-66)
RemoveFromAllRooms(s, client_id) ==
    IF client_id \notin DOMAIN s.clients THEN s
    ELSE [s EXCEPT !.room_members =
                       DiscardFromRooms(@, s.client_states[s.clients[client_id]].rooms,
                                        client_id),
                   !.client_states[s.clients[client_id]].rooms = {}]

\* Mutant: the client's data channel stays in hub.channels.
DisconnectPoppedKeepsChannel(s, client_id, pc) ==
    [s EXCEPT !.pcs = Pop(@, client_id),
              !.peers = IF pc # NoPc THEN [@ EXCEPT ![pc].close_tasks = @ + 1] ELSE @]

\* Hub.disconnect (lines 68-74); asyncio.create_task(pc.close()) leaves one
\* more close task pending for the peer connection that was registered.
DisconnectPopped(s, client_id, pc) ==
    [s EXCEPT !.channels = Pop(@, client_id),
              !.pcs = Pop(@, client_id),
              !.peers = IF pc # NoPc THEN [@ EXCEPT ![pc].close_tasks = @ + 1] ELSE @]

DisconnectRooms(s, client_id) ==
    [RemoveFromAllRooms(s, client_id) EXCEPT !.clients = Pop(@, client_id)]

Disconnect(s, client_id) ==
    DisconnectRooms(DisconnectPopped(s, client_id, Get(s.pcs, client_id, NoPc)), client_id)

\* Hub.send_to (lines 80-85): whether the message is sent.  ready gives the
\* readyState of the channel registered for each client.
SendTo(to_id, ready) == to_id \in DOMAIN channels /\ ready[to_id] = "open"

\* Hub.broadcast_room (lines 87-95): the clients the message is sent to.
BroadcastRoomTo(room, exclude, ready) ==
    {cid \in Get(room_members, room, {}) : cid # exclude /\ SendTo(cid, ready)}

\* Hub.broadcast_all (lines 97-103)
BroadcastAllTo(ready) == {cid \in DOMAIN channels : SendTo(cid, ready)}

\* The readyState a data channel of peer connection pc can have: "open"
\* until close() is entered, "closed" once it has ended, either while it is
\* under way.
ReadyStates(pc) ==
    IF ~peers[pc].isClosed THEN {"open"}
    ELSE IF peers[pc].closing \in {"task", "handler"} THEN {"open", "closed"}
    ELSE {"closed"}

ChannelStates ==
    {ready \in [DOMAIN channels -> {"open", "closed"}] :
        \A c \in DOMAIN channels : ready[c] \in ReadyStates(channels[c])}

\* ------------------------------------------------------------------------
\* offer and the handlers it registers (server.py:150-278)
\* ------------------------------------------------------------------------
\* A peer connection made by make_pc(), with what its handlers closed over
\* (client_id, st), its connectionState, whether close() was entered
\* (isClosed), whether on_datachannel has run (channel), the pending
\* on_connectionstatechange invocations (callbacks), the pending
\* create_task(pc.close()) tasks (close_tasks), who waits for the close()
\* that is under way (closing: "idle", "task", "handler", "done"), and the
\* peer connection it replaced.
NewPeer(client_id, st, replaced) ==
    [client_id |-> client_id, st |-> st, connectionState |-> "new", isClosed |-> FALSE,
     channel |-> FALSE, callbacks |-> 0, close_tasks |-> 0, closing |-> "idle",
     replaced |-> replaced]

Commit(s) ==
    /\ pcs' = s.pcs
    /\ channels' = s.channels
    /\ clients' = s.clients
    /\ room_members' = s.room_members
    /\ client_states' = s.client_states
    /\ peers' = s.peers

\* Lines 160-167: from the test of hub.pcs to st.role, with no await between.
OfferRegistered(s, client_id, role, pc, replaced) ==
    LET s1 == EnsureClient([s EXCEPT !.pcs = Put(@, client_id, pc)], client_id)
    IN  [s1 EXCEPT !.client_states[s1.clients[client_id]].role = role,
                   !.peers = Put(@, pc, NewPeer(client_id, s1.clients[client_id], replaced))]

OfferFor(client_id, role) ==
    OfferRegistered(IF client_id \in DOMAIN pcs THEN Disconnect(World, client_id) ELSE World,
                    client_id, role, Cardinality(DOMAIN peers) + 1,
                    Get(pcs, client_id, NoPc))

\* on_datachannel (lines 171-180)
OnDataChannelFor(pc) ==
    AddToRoom([World EXCEPT !.channels = Put(@, peers[pc].client_id, pc),
                            !.peers[pc].channel = TRUE],
              peers[pc].client_id, "pulseai")

\* on_message (lines 183-265): the join and leave branches; the other
\* branches leave the hub as it is.
OnMessageFor(pc, t, room) ==
    IF t = "join" THEN AddToRoom(World, peers[pc].client_id, room)
    ELSE IF t = "leave" /\ room \in client_states[peers[pc].st].rooms
      THEN [World EXCEPT !.client_states[peers[pc].st].rooms = @ \ {room},
                         !.room_members = DiscardMember(@, room, peers[pc].client_id)]
    ELSE World

\* RTCPeerConnection.close(): a call on a connection whose close() was
\* already entered returns at once; the first call stops the transports,
\* and when it ends the connectionState becomes "closed" and the
\* connectionstatechange event is emitted if the state changed.
CloseEnded(s, pc) ==
    [s EXCEPT !.peers[pc].connectionState = "closed",
              !.peers[pc].closing = "done",
              !.peers[pc].callbacks =
                  IF s.peers[pc].connectionState # "closed" THEN @ + 1 ELSE @]

\* ------------------------------------------------------------------------
\* Inputs
\* ------------------------------------------------------------------------
NoLogs == <<>>

\* Samples as the agents send them (server.py:237-241, sample_loader.py:123):
\* JSON objects in which any field may be missing.
FullSample ==
    [AgentId |-> "pos1", Timestamp |-> "t1", CPU |-> 20, Memory |-> 40, DiskIO |-> 5,
     Network |-> [Sent |-> 7, Recv |-> 9], Logs |-> NoLogs]
SpikeSample ==
    [AgentId |-> "pos1", Timestamp |-> "t2", CPU |-> 95, Memory |-> 95, DiskIO |-> 80,
     Network |-> [Sent |-> 7, Recv |-> 9]]
CalmSample ==
    [AgentId |-> "pos1", Timestamp |-> "t3", CPU |-> 10, Memory |-> 40, DiskIO |-> 5,
     Network |-> [Recv |-> 9]]
BareSample == [AgentId |-> "pos1"]
AnonymousSample == [Timestamp |-> "t4", CPU |-> 30, Network |-> [Sent |-> 7]]
EmptySample == <<>>
OtherAgentSample == [AgentId |-> "pos2", CPU |-> 20, Memory |-> 40, DiskIO |-> 5]
FailingPrinterSample ==
    [AgentId |-> "pos1", CPU |-> 20, Memory |-> 40, DiskIO |-> 5,
     Logs |-> << [BodyType |-> PERIPHERAL_CHECK,
                  KeyValues |-> << <<"printer", FAILED>> >>],
                 [BodyType |-> PERIPHERAL_CHECK,
                  KeyValues |-> << <<"printer", FAILED>> >>],
                 [BodyType |-> PERIPHERAL_CHECK,
                  KeyValues |-> << <<"printer", FAILED>>, <<"scanner", CONNECTED>> >>],
                 [BodyType |-> PERIPHERAL_CHECK,
                  KeyValues |-> << <<"scanner", FAILED>>, <<"printer", FAILED>> >>] >>]

Samples == {FullSample, SpikeSample, CalmSample, BareSample, AnonymousSample,
            EmptySample, OtherAgentSample, FailingPrinterSample}

\* What ECOD returns, in thousandths: the decision score of the latest row,
\* the least and the greatest decision score of the window's rows, and the
\* outlier verdict; or the statement at which it raises.  The score of the
\* latest row comes from a call of its own (line 179) and need not lie
\* between the other two (line 183).
EcodQuiet ==
    [fail |-> "none", score |-> 2000, all_min |-> 1000, all_max |-> 6000, outlier |-> FALSE]
EcodOutcomes ==
    [fail : {"none"}, score : {2000, 5000, 5750}, all_min : {1000}, all_max : {6000},
     outlier : BOOLEAN]
    \cup {[fail |-> "none", score |-> 900, all_min |-> 1000, all_max |-> 6000,
           outlier |-> FALSE],
          [fail |-> "none", score |-> 0, all_min |-> 0, all_max |-> 0, outlier |-> FALSE]}
    \cup [fail : EcodFailPoints \ {"none"}, score : {5000}, all_min : {1000},
          all_max : {6000}, outlier : {TRUE}]

\* What AutoARIMA returns: forecast = actual + delta, or where it raises.
ArimaExact == [fail |-> "none", delta |-> 0]
ArimaOutcomes ==
    [fail : {"none"}, delta : {0, 1, -4}]
    \cup [fail : ArimaFailPoints \ {"none"}, delta : {1}]

Input(data, run_ecod, run_arima, ecod, cpu, memory) ==
    [data |-> data, run_ecod |-> run_ecod, run_arima |-> run_arima,
     lib |-> [ecod |-> ecod, cpu |-> cpu, memory |-> memory]]

\* The regular call of a workload.
EcodAlarm ==
    [fail |-> "none", score |-> 5750, all_min |-> 1000, all_max |-> 6000, outlier |-> TRUE]
ArimaMiss == [fail |-> "none", delta |-> 1]

SteadyInputs ==
    {Input(d, TRUE, TRUE, l[1], l[2], l[2]) :
        d \in {FullSample, EmptySample},
        l \in {<<EcodQuiet, ArimaExact>>, <<EcodAlarm, ArimaMiss>>}}

\* The calls that differ from the regular call `in` in one respect.
OddInputs(in) ==
    {[in EXCEPT !.data = d] : d \in Samples}
    \cup {[in EXCEPT !.run_ecod = f[1], !.run_arima = f[2]] : f \in BOOLEAN \X BOOLEAN}
    \cup {[in EXCEPT !.lib.ecod = e] : e \in EcodOutcomes}
    \cup {[in EXCEPT !.lib.cpu = a] : a \in ArimaOutcomes}
    \cup {[in EXCEPT !.lib.memory = a] : a \in ArimaOutcomes}

\* ------------------------------------------------------------------------
\* Specification: a workload of detect calls
\* ------------------------------------------------------------------------
MaxCalls == 62
MaxOdd == 1

Init ==
    /\ buffers = <<>>
    /\ peripheral_states = <<>>
    /\ ecod_models = {}
    /\ arima_models = <<>>
    /\ arima_residuals = <<>>
    /\ score_history = <<>>
    /\ result = NoResult
    /\ call = NoCall
    /\ fd_evaluations = <<>>
    /\ calls = 0
    /\ odd = 0
    /\ steady \in SteadyInputs
    /\ NewHub

DetectSteady ==
    /\ calls < MaxCalls
    /\ Detect(steady.data, steady.run_ecod, steady.run_arima, steady.lib)
    /\ UNCHANGED <<odd, steady>>

DetectOdd ==
    /\ calls < MaxCalls
    /\ odd < MaxOdd
    /\ \E in \in OddInputs(steady) \ {steady} :
          Detect(in.data, in.run_ecod, in.run_arima, in.lib)
    /\ odd' = odd + 1
    /\ UNCHANGED steady

Next == DetectSteady \/ DetectOdd

Spec == Init /\ [][Next]_vars

\* ------------------------------------------------------------------------
\* Specification: samples that carry peripheral-check logs
\* ------------------------------------------------------------------------
MaxPeripheralCalls == 5

Devices == {"printer", "scanner"}
Statuses == {FAILED, CONNECTED, "standby"}

PeripheralEntry(key_values) == [BodyType |-> PERIPHERAL_CHECK, KeyValues |-> key_values]

\* One status of the printer per entry.
PrinterEntries == {PeripheralEntry(<<<<"printer", st>>>>) : st \in Statuses}

LogEntries ==
    PrinterEntries
    \cup {PeripheralEntry(<<<<"scanner", st>>>>) : st \in {FAILED, CONNECTED}}
    \cup {PeripheralEntry(<<<<"printer", FAILED>>, <<"scanner", FAILED>>>>),
          PeripheralEntry(<<<<"scanner", CONNECTED>>, <<"printer", FAILED>>>>),
          [BodyType |-> "transaction", KeyValues |-> <<<<"printer", FAILED>>>>],
          [KeyValues |-> <<<<"printer", CONNECTED>>>>],
          [BodyType |-> PERIPHERAL_CHECK]}

LogLists ==
    {<<>>}
    \cup {<<e>> : e \in LogEntries}
    \cup {<<e1, e2>> : e1 \in PrinterEntries, e2 \in PrinterEntries}
    \cup {<<PeripheralEntry(<<<<"printer", FAILED>>>>),
            PeripheralEntry(<<<<"printer", FAILED>>>>),
            PeripheralEntry(<<<<"printer", FAILED>>>>)>>,
          [i \in 1..6 |-> PeripheralEntry(<<<<"printer", FAILED>>>>)]}

PeripheralSamples ==
    {[AgentId |-> "pos1", CPU |-> 20, Logs |-> logs] : logs \in LogLists}
    \cup {[AgentId |-> "pos1", CPU |-> 20]}
    \cup {[CPU |-> 20, Logs |-> <<e>>] : e \in PrinterEntries}

InitPeripheral ==
    /\ Init
    /\ steady = Input(FullSample, TRUE, TRUE, EcodQuiet, ArimaExact, ArimaExact)

DetectPeripheral ==
    /\ calls < MaxPeripheralCalls
    /\ \E data \in PeripheralSamples :
          Detect(data, steady.run_ecod, steady.run_arima, steady.lib)
    /\ UNCHANGED <<odd, steady>>

NextPeripheral == DetectPeripheral

SpecPeripheral == InitPeripheral /\ [][NextPeripheral]_vars

\* ------------------------------------------------------------------------
\* Specification: a long regular workload
\* ------------------------------------------------------------------------
MaxLongCalls == 130

DetectLong ==
    /\ calls < MaxLongCalls
    /\ Detect(steady.data, steady.run_ecod, steady.run_arima, steady.lib)
    /\ UNCHANGED <<odd, steady>>

NextLong == DetectLong

SpecLong == Init /\ [][NextLong]_vars

\* ------------------------------------------------------------------------
\* Specification: steps 4 to 6 of detect on the findings of one cycle
\* ------------------------------------------------------------------------
\* The multivariate DD finding for a normalised score, the breakdown loop
\* having raised in its first iteration, on a window of 20 samples.
EcodAt(score_normalized, is_outlier) ==
    RunMultivariateEcod([c \in Channels |-> [i \in 1..MIN_SAMPLES_ECOD |-> 0]], <<>>,
                        [fail |-> "brk0", score |-> 1000 + 5 * score_normalized,
                         all_min |-> 1000, all_max |-> 6000,
                         outlier |-> is_outlier]).results

\* The FD finding of a metric whose residual window is residual_history,
\* the latest residual last.
ArimaAt(metric_name, residual_history) ==
    <<ArimaFinding(metric_name, 20, residual_history[Len(residual_history)],
                   ArimaVerdict(residual_history[Len(residual_history)],
                                residual_history))>>

EnsembleScores == {0, 230, 400, 650, 900, 950}
ResidualWindows ==
    {<<0>>, <<0, 1>>, <<2, 3>>, <<0, 0, 1>>, <<0, 0, 0, 1>>, <<0, 0, 1, 4>>,
     <<0, 0, 0, 0, 1>>}

\* The findings the detectors hand to step 4.
CycleFindings ==
    {e \o a \o m :
        e \in {<<>>} \cup {EcodAt(n, o) : n \in EnsembleScores, o \in BOOLEAN},
        a \in {<<>>} \cup {ArimaAt("CPU", h) : h \in ResidualWindows},
        m \in {<<>>} \cup {ArimaAt("Memory", h) : h \in ResidualWindows}}

MaxCombines == 1

InitEnsemble ==
    /\ Init
    /\ steady = Input(FullSample, TRUE, TRUE, EcodQuiet, ArimaExact, ArimaExact)

\* Lines 477-513 of detect on the findings of lines 462-475.
Combine ==
    /\ calls < MaxCombines
    /\ \E detections \in CycleFindings :
          /\ result' = DetectReturn("pos1", FullSample, detections)
          /\ call' = [kind |-> "combine", detections |-> detections]
    /\ calls' = calls + 1
    /\ UNCHANGED <<detector_vars, fd_evaluations, odd, steady, hub_vars>>

NextEnsemble == Combine

SpecEnsemble == InitEnsemble /\ [][NextEnsemble]_vars

\* ------------------------------------------------------------------------
\* batch_arima_forecast (lines 547-637)
\* ------------------------------------------------------------------------
\* Severity of a projected value (lines 606-615).
BatchSeverity(metric_name, value) ==
    IF value >= (IF metric_name = "cpu" THEN 90 ELSE 95) THEN "critical"
    ELSE IF value >= (IF metric_name = "cpu" THEN 80 ELSE 85) THEN "warning"
    ELSE "normal"

SamplePoints == <<10, 30, 60, 120>>

\* forecasts[idx] of what AutoARIMA predicts: a line from `start`, rising by
\* `slope` every ten minutes (120 points).
ForecastAt(m, idx) == m.start + (m.slope * (idx + 1)) \div 120

\* The list of one metric (lines 580-627).  m: what AutoARIMA does for this
\* metric, [fail, start, slope]; horizon is positive.
BatchMetric(metric_name, horizon, m) ==
    IF m.fail THEN <<>>
    ELSE [i \in 1..Len(SamplePoints) |->
            [minutes  |-> SamplePoints[i],
             value    |-> ForecastAt(m, Min(SamplePoints[i] * 12 - 1, horizon - 1)),
             severity |-> BatchSeverity(metric_name,
                              ForecastAt(m, Min(SamplePoints[i] * 12 - 1, horizon - 1)))]]

\* The dict batch_arima_forecast returns.
BatchArimaForecast(data_list, forecast_hours, lib) ==
    IF Len(data_list) < MIN_SAMPLES_ARIMA
      THEN [cpu |-> <<>>, memory |-> <<>>, error |-> "Not enough data"]
      ELSE [cpu    |-> BatchMetric("cpu", forecast_hours * 60 * 12, lib.cpu),
            memory |-> BatchMetric("memory", forecast_hours * 60 * 12, lib.memory),
            current_cpu    |-> Get(data_list[Len(data_list)], "CPU", 0),
            current_memory |-> Get(data_list[Len(data_list)], "Memory", 0)]

\* ------------------------------------------------------------------------
\* Specification: one batch forecast
\* ------------------------------------------------------------------------
MaxBatches == 1

BatchLengths == {0, 1, 29, 30, 31}
BatchSeries ==
    {[i \in 1..n |-> d] : n \in BatchLengths, d \in {FullSample, SpikeSample, EmptySample}}
BatchHours == {1, 2}
BatchOutcomes ==
    {[fail |-> TRUE, start |-> 0, slope |-> 0]}
    \cup [fail : {FALSE}, start : {50, 75}, slope : {0, 1, 2}]

InitBatch ==
    /\ Init
    /\ steady = Input(FullSample, TRUE, TRUE, EcodQuiet, ArimaExact, ArimaExact)

Batch ==
    /\ calls < MaxBatches
    /\ \E data_list \in BatchSeries, forecast_hours \in BatchHours,
          cpu \in BatchOutcomes, memory \in BatchOutcomes :
          /\ result' = BatchArimaForecast(data_list, forecast_hours,
                                          [cpu |-> cpu, memory |-> memory])
          /\ call' = [kind |-> "batch", data_list |-> data_list,
                      forecast_hours |-> forecast_hours,
                      lib |-> [cpu |-> cpu, memory |-> memory]]
    /\ calls' = calls + 1
    /\ UNCHANGED <<detector_vars, fd_evaluations, odd, steady, hub_vars>>

NextBatch == Batch

SpecBatch == InitBatch /\ [][NextBatch]_vars

\* ------------------------------------------------------------------------
\* Specification: clients connecting to the hub
\* ------------------------------------------------------------------------
MaxPeers == 2
MaxPending == 1

ClientIds == {"pos1", "dash1"}
Roles == {"agent"}
Rooms == {"pulseai", "ops"}

InitHub ==
    /\ Init
    /\ steady = Input(FullSample, TRUE, TRUE, EcodQuiet, ArimaExact, ArimaExact)

\* POST /offer?client_id=..&role=.. (lines 160-169)
Offer ==
    /\ Cardinality(DOMAIN peers) < MaxPeers
    /\ \E client_id \in ClientIds, role \in Roles :
          /\ Commit(Collect(OfferFor(client_id, role)))
          /\ hub_call' = [kind |-> "offer", client_id |-> client_id,
                          pc |-> Cardinality(DOMAIN peers) + 1,
                          replaced |-> Get(pcs, client_id, NoPc)]
    /\ UNCHANGED workload_vars

\* The transports of a peer connection report a change of connectionState;
\* the connectionstatechange event leaves one more handler invocation pending.
ConnectionStateChange ==
    /\ \E pc \in DOMAIN peers, state \in {"connected", "disconnected", "failed"} :
          /\ ~peers[pc].isClosed
          /\ peers[pc].callbacks < MaxPending
          /\ \/ peers[pc].connectionState = "new" /\ state \in {"connected", "failed"}
             \/ peers[pc].connectionState = "connected" /\ state \in {"disconnected", "failed"}
             \/ peers[pc].connectionState = "disconnected" /\ state = "failed"
          /\ peers' = [peers EXCEPT ![pc].connectionState = state,
                                    ![pc].callbacks = @ + 1]
          /\ hub_call' = [kind |-> "statechange", client_id |-> peers[pc].client_id,
                          pc |-> pc]
    /\ UNCHANGED <<pcs, channels, clients, room_members, client_states>>
    /\ UNCHANGED workload_vars

\* The client's data channel arrives on a connected peer connection.
OnDataChannel ==
    /\ \E pc \in DOMAIN peers :
          /\ ~peers[pc].isClosed
          /\ ~peers[pc].channel
          /\ peers[pc].connectionState = "connected"
          /\ Commit(Collect(OnDataChannelFor(pc)))
          /\ hub_call' = [kind |-> "datachannel", client_id |-> peers[pc].client_id,
                          pc |-> pc]
    /\ UNCHANGED workload_vars

\* A message arrives on the data channel of a peer connection.
OnMessage ==
    /\ \E pc \in DOMAIN peers, t \in {"join", "leave", "ping"}, room \in Rooms :
          /\ peers[pc].channel
          /\ ~peers[pc].isClosed
          /\ Commit(Collect(OnMessageFor(pc, t, room)))
          /\ hub_call' = [kind |-> "message", client_id |-> peers[pc].client_id,
                          pc |-> pc]
    /\ UNCHANGED workload_vars

\* A task made by asyncio.create_task(pc.close()) (line 72) gets to run.
CloseTask ==
    /\ \E pc \in DOMAIN peers :
          /\ peers[pc].close_tasks > 0
          /\ peers' = [peers EXCEPT
                          ![pc].close_tasks = @ - 1,
                          ![pc].isClosed = TRUE,
                          ![pc].closing = IF peers[pc].isClosed THEN @ ELSE "task"]
          /\ hub_call' = [kind |-> "close", client_id |-> peers[pc].client_id, pc |-> pc]
    /\ UNCHANGED <<pcs, channels, clients, room_members, client_states>>
    /\ UNCHANGED workload_vars

\* The close() under way ends; a handler that awaited it goes on to
\* hub.disconnect(client_id) (line 272).
CloseEnd ==
    /\ \E pc \in DOMAIN peers :
          /\ peers[pc].closing \in {"task", "handler"}
          /\ Commit(Collect(IF peers[pc].closing = "handler"
                              THEN Disconnect(CloseEnded(World, pc), peers[pc].client_id)
                              ELSE CloseEnded(World, pc)))
          /\ hub_call' = [kind |-> IF peers[pc].closing = "handler"
                                     THEN "disconnect" ELSE "closed",
                          client_id |-> peers[pc].client_id, pc |-> pc]
    /\ UNCHANGED workload_vars

\* on_connectionstatechange (lines 267-272) up to its first suspension: on
\* a connection whose close() was entered, `await pc.close()` returns at
\* once and hub.disconnect(client_id) follows in the same step.
OnConnectionStateChange ==
    /\ \E pc \in DOMAIN peers :
          /\ peers[pc].callbacks > 0
          /\ Commit(Collect(
                IF peers[pc].connectionState \notin {"failed", "closed", "disconnected"}
                  THEN [World EXCEPT !.peers[pc].callbacks = @ - 1]
                ELSE IF peers[pc].isClosed
                  THEN Disconnect([World EXCEPT !.peers[pc].callbacks = @ - 1],
                                  peers[pc].client_id)
                ELSE [World EXCEPT !.peers[pc].callbacks = @ - 1,
                                   !.peers[pc].isClosed = TRUE,
                                   !.peers[pc].closing = "handler"]))
          /\ hub_call' = [kind |-> IF /\ peers[pc].connectionState
                                           \in {"failed", "closed", "disconnected"}
                                      /\ peers[pc].isClosed
                                     THEN "disconnect" ELSE "handler",
                          client_id |-> peers[pc].client_id, pc |-> pc]
    /\ UNCHANGED workload_vars

\* A task made for hub.broadcast_room (lines 230, 247, 259) gets to run; it
\* has no suspension point, send_to and channel.send return at once.
BroadcastRoom ==
    /\ \E room \in Rooms, exclude \in ClientIds, ready \in ChannelStates :
          hub_call' = [kind |-> "broadcast_room", client_id |-> exclude, pc |-> NoPc,
                       room |-> room, delivered |-> BroadcastRoomTo(room, exclude, ready)]
    /\ UNCHANGED <<pcs, channels, clients, room_members, client_states, peers>>
    /\ UNCHANGED workload_vars

\* hub.broadcast_all(result) of the sample replay (lines 134-147).
BroadcastAll ==
    /\ \E ready \in ChannelStates :
          hub_call' = [kind |-> "broadcast_all", client_id |-> "", pc |-> NoPc,
                       room |-> "", delivered |-> BroadcastAllTo(ready)]
    /\ UNCHANGED <<pcs, channels, clients, room_members, client_states, peers>>
    /\ UNCHANGED workload_vars

NextHub ==
    \/ Offer
    \/ ConnectionStateChange
    \/ OnDataChannel
    \/ OnMessage
    \/ CloseTask
    \/ CloseEnd
    \/ OnConnectionStateChange
    \/ BroadcastRoom
    \/ BroadcastAll

SpecHub == InitHub /\ [][NextHub]_vars

\* ========================================================================
\* Properties
\* ========================================================================
\* A detect call has returned: result and call describe it.
Called == call.kind = "detect"

\* What the call's sample says, read without the detector's operators.
Carries(field) == field \in DOMAIN call.data
ExpectedAgent == IF Carries("AgentId") THEN call.data.AgentId ELSE "unknown"
ExpectedMetric(field) == IF Carries(field) THEN call.data[field] ELSE 0
ExpectedNetwork(field) ==
    IF Carries("Network") /\ field \in DOMAIN call.data.Network
      THEN call.data.Network[field] ELSE 0
Last(q) == q[Len(q)]

EngineFindings(e) == SelectSeq(result.detections, LAMBDA d : d.engine = e)

\* ------------------------------------------------------------------------
\* C1: after any sequence of detect calls, for any agents, each of the six
\* buffer channels of every agent holds at most 60 entries.
C1_ChannelsBounded ==
    \A a \in DOMAIN buffers : \A c \in Channels : Len(buffers[a][c]) <= 60

\* A call on a window that was already full left it full.
C1_Witness ==
    /\ Called
    /\ call.before.window = 60
    /\ \A c \in Channels : Len(buffers[call.agent_id][c]) = 60

\* ------------------------------------------------------------------------
\* C2: in every reachable state the six buffer channels of one agent have
\* the same length, whatever fields the samples carried or lacked.
C2_ChannelsEqualLength ==
    \A a \in DOMAIN buffers :
        \A c1 \in Channels, c2 \in Channels : Len(buffers[a][c1]) = Len(buffers[a][c2])

\* A sample without Network and without Timestamp was buffered after others.
C2_Witness ==
    /\ Called
    /\ ~Carries("Network") /\ ~Carries("Timestamp")
    /\ call.before.window >= 2
    /\ Len(buffers[call.agent_id]["network_sent"]) = call.before.window + 1

\* ------------------------------------------------------------------------
\* C3: every detect call returns a DetectionResult, whatever the sample
\* lacks and whatever the libraries raise: an absent metric field is taken
\* as 0 (in raw_metrics and in the buffer), an absent AgentId as "unknown",
\* and the sample is buffered.
C3_AlwaysAResult ==
    Called =>
        /\ result.kind = "DetectionResult"
        /\ result.agent_id = ExpectedAgent
        /\ result.raw_metrics =
              [CPU |-> ExpectedMetric("CPU"), Memory |-> ExpectedMetric("Memory"),
               DiskIO |-> ExpectedMetric("DiskIO"),
               NetworkSent |-> ExpectedNetwork("Sent"),
               NetworkRecv |-> ExpectedNetwork("Recv")]
        /\ ExpectedAgent \in DOMAIN buffers
        /\ Len(buffers[ExpectedAgent]["cpu"]) = Min(60, call.before.window + 1)
        /\ Last(buffers[ExpectedAgent]["cpu"]) = ExpectedMetric("CPU")
        /\ Last(buffers[ExpectedAgent]["memory"]) = ExpectedMetric("Memory")
        /\ Last(buffers[ExpectedAgent]["disk_io"]) = ExpectedMetric("DiskIO")
        /\ Last(buffers[ExpectedAgent]["network_sent"]) = ExpectedNetwork("Sent")
        /\ Last(buffers[ExpectedAgent]["network_recv"]) = ExpectedNetwork("Recv")

\* The empty sample was processed while both detectors were running and
\* a library raised.
C3_Witness ==
    /\ Called
    /\ call.data = EmptySample
    /\ call.before.window >= 30
    /\ call.lib.ecod.fail # "none" \/ call.lib.cpu.fail # "none"
    /\ result.kind = "DetectionResult"
    /\ result.agent_id = "unknown"

\* ------------------------------------------------------------------------
\* What the call's sample says about the peripherals: the <<device, status>>
\* pairs of its peripheral-check entries, in order.
RECURSIVE ObservedIn(_)
ObservedIn(logs) ==
    IF logs = <<>> THEN <<>>
    ELSE (IF /\ "BodyType" \in DOMAIN Head(logs)
             /\ Head(logs).BodyType = PERIPHERAL_CHECK
             /\ "KeyValues" \in DOMAIN Head(logs)
            THEN Head(logs).KeyValues ELSE <<>>) \o ObservedIn(Tail(logs))

Observed == IF Carries("Logs") THEN ObservedIn(call.data.Logs) ELSE <<>>

\* The statuses the sample reports for device d, in order.
StatusesOf(d) ==
    LET pairs == SelectSeq(Observed, LAMBDA p : p[1] = d)
    IN  [i \in 1..Len(pairs) |-> pairs[i][2]]

SeesConnected(d) == \E i \in 1..Len(StatusesOf(d)) : StatusesOf(d)[i] = CONNECTED

\* The failed statuses for d that follow the last connected one.
FailedSinceConnected(d) ==
    LET sts == StatusesOf(d)
        reset == Max(0, IF SeesConnected(d)
                          THEN CHOOSE i \in 1..Len(sts) :
                                   /\ sts[i] = CONNECTED
                                   /\ \A j \in (i + 1)..Len(sts) : sts[j] # CONNECTED
                          ELSE 0)
    IN  Cardinality({i \in (reset + 1)..Len(sts) : sts[i] = FAILED})

FailureCounts == peripheral_states[call.agent_id].failure_counts
FailureCountsBefore == call.before.peripheral.failure_counts
CountOf(counts, d) == IF d \in DOMAIN counts THEN counts[d] ELSE 0

\* C4 as stated: after a sample carrying a connected status for d,
\* failure_counts[d] is 0 when detect returns.
C4_ZeroAfterConnected ==
    Called => \A d \in Devices :
        SeesConnected(d) => d \in DOMAIN FailureCounts /\ FailureCounts[d] = 0

\* C4: after a sample carrying a connected status for d, failure_counts[d]
\* is, when detect returns, the number of failed statuses for d that follow
\* the last connected status for d in that sample: 0 when none follows.
C4_CountSinceConnected ==
    Called => \A d \in Devices :
        SeesConnected(d) =>
            d \in DOMAIN FailureCounts /\ FailureCounts[d] = FailedSinceConnected(d)

\* A device that had failed is reported connected and its count is cleared.
C4_Witness ==
    /\ Called
    /\ \E d \in Devices :
          /\ CountOf(FailureCountsBefore, d) >= 2
          /\ SeesConnected(d)
          /\ FailedSinceConnected(d) = 0
          /\ FailureCounts[d] = 0

\* ------------------------------------------------------------------------
\* C5 as stated: a peripheral finding for d in a result means
\* failure_counts[d] >= 3 when detect returns.
C5_FindingMeansThree ==
    Called => \A i \in 1..Len(EngineFindings("peripheral")) :
        CountOf(FailureCounts, EngineFindings("peripheral")[i].metric) >= 3

\* C5: a peripheral finding for d carries the failure count at which it was
\* emitted, which is at least 3; when detect returns failure_counts[d] is
\* at least that count unless the same sample also carries a connected
\* status for d.
C5_FindingAtThree ==
    Called => \A i \in 1..Len(EngineFindings("peripheral")) :
        LET f == EngineFindings("peripheral")[i]
        IN  /\ f.value >= 3
            /\ ~SeesConnected(f.metric) => CountOf(FailureCounts, f.metric) >= f.value

\* A finding was emitted at the third failure.
C5_Witness ==
    /\ Called
    /\ \E i \in 1..Len(EngineFindings("peripheral")) :
          /\ EngineFindings("peripheral")[i].value = 3
          /\ FailureCounts[EngineFindings("peripheral")[i].metric] = 3

\* ------------------------------------------------------------------------
\* The finding the peripheral monitor owes for a failure count.
OwedFinding(d, count) ==
    [engine |-> "peripheral", metric |-> d, value |-> count,
     score |-> IF count >= 10 THEN 1000 ELSE 100 * count,
     threshold |-> 3,
     severity |-> IF count >= 5 THEN "critical" ELSE "warning",
     confidence |-> 950, residual |-> None]

FindingsFor(d) == SelectSeq(EngineFindings("peripheral"), LAMBDA f : f.metric = d)

\* C6: a sample reporting k failed statuses (and nothing else) for a device
\* whose count was b raises the count to b + k and yields one finding for
\* each count from max(3, b + 1) to b + k, in order: none at the first and
\* second failure, WARNING at 3 and 4, CRITICAL from 5, threshold 3,
\* confidence 0.95, score min(1, count/10).  A sample reporting only
\* connected yields no finding and clears the count, so that the next
\* failure counts from 1.
C6_FailureRun ==
    Called => \A d \in Devices :
        LET sts == StatusesOf(d)
            b   == CountOf(FailureCountsBefore, d)
            k   == Len(sts)
        IN  /\ (k > 0 /\ \A i \in 1..k : sts[i] = FAILED) =>
                  /\ FailureCounts[d] = b + k
                  /\ Len(FindingsFor(d)) = Max(0, b + k - Max(2, b))
                  /\ \A i \in 1..Len(FindingsFor(d)) :
                        FindingsFor(d)[i] = OwedFinding(d, Max(2, b) + i)
            /\ (k > 0 /\ \A i \in 1..k : sts[i] = CONNECTED) =>
                  /\ FailureCounts[d] = 0
                  /\ FindingsFor(d) = <<>>

\* The third failure of a device yields its first finding.
C6_Witness ==
    /\ Called
    /\ StatusesOf("printer") = <<FAILED>>
    /\ CountOf(FailureCountsBefore, "printer") = 2
    /\ FindingsFor("printer") = <<OwedFinding("printer", 3)>>

\* The fifth failure yields a CRITICAL finding.
C6_WitnessCritical ==
    /\ Called
    /\ StatusesOf("printer") = <<FAILED>>
    /\ CountOf(FailureCountsBefore, "printer") = 4
    /\ FindingsFor("printer") = <<OwedFinding("printer", 5)>>

\* The first failure after a recovery from five failures.
C6_WitnessRecovery ==
    /\ Called
    /\ StatusesOf("printer") = <<FAILED>>
    /\ "printer" \in DOMAIN FailureCountsBefore
    /\ FailureCountsBefore["printer"] = 0
    /\ FailureCounts["printer"] = 1
    /\ FindingsFor("printer") = <<>>

\* ------------------------------------------------------------------------
\* C7: every result holds at most one ENSEMBLE finding, and holds one
\* exactly when it holds at least one DD (ecod) and at least one FD (arima)
\* finding.
C7_OneEnsembleFinding ==
    Called =>
        /\ Len(EngineFindings("ensemble")) <= 1
        /\ Len(EngineFindings("ensemble")) = 1
              <=> (EngineFindings("ecod") # <<>> /\ EngineFindings("arima") # <<>>)

\* A result with findings of both engines and the ensemble finding.
C7_Witness ==
    /\ Called
    /\ EngineFindings("ecod") # <<>>
    /\ EngineFindings("arima") # <<>>
    /\ Len(EngineFindings("ensemble")) = 1

\* ------------------------------------------------------------------------
\* The sum of score x confidence over findings, in millionths.
RECURSIVE Weighted(_)
Weighted(fs) ==
    IF fs = <<>> THEN 0 ELSE fs[1].score * fs[1].confidence + Weighted(Tail(fs))

\* ensemble_score = mean of score x confidence over the findings fs.
ScoreIsMeanOf(fs) ==
    result.ensemble_score.num * Len(fs) = Weighted(fs) * result.ensemble_score.den

\* C8 as stated: ensemble_score is 0 unless both DD and FD produced findings.
C8_ZeroUnlessBoth ==
    Called =>
        (~(EngineFindings("ecod") # <<>> /\ EngineFindings("arima") # <<>>)
            => result.ensemble_score.num = 0)

\* C8: ensemble_score is 0 when neither DD nor FD produced findings; when
\* only one of them did it is the mean of score x confidence over that
\* engine's findings.
C8_ZeroUnlessEither ==
    Called =>
        /\ (EngineFindings("ecod") = <<>> /\ EngineFindings("arima") = <<>>)
              => result.ensemble_score.num = 0
        /\ (EngineFindings("ecod") # <<>> /\ EngineFindings("arima") = <<>>)
              => ScoreIsMeanOf(EngineFindings("ecod"))
        /\ (EngineFindings("ecod") = <<>> /\ EngineFindings("arima") # <<>>)
              => ScoreIsMeanOf(EngineFindings("arima"))

\* Only the peripheral monitor reported, and the ensemble score is 0.
C8_Witness ==
    /\ Called
    /\ EngineFindings("peripheral") # <<>>
    /\ EngineFindings("ecod") = <<>> /\ EngineFindings("arima") = <<>>
    /\ result.ensemble_score.num = 0

\* Only DD reported, and the ensemble score is not 0.
C8_WitnessOnlyEcod ==
    /\ Called
    /\ EngineFindings("ecod") # <<>> /\ EngineFindings("arima") = <<>>
    /\ result.ensemble_score.num > 0

\* ------------------------------------------------------------------------
\* C9 as stated: for each (agent, metric) the FD evaluations that select a
\* model anew are the first and the 100th, 200th, ...; every other one
\* reuses the cached model.
C9_ReselectEveryHundred ==
    Called => \A m \in {"CPU", "Memory"} :
        call.evaluated[m] =>
            (call.need_retrain[m] <=>
                \/ fd_evaluations[call.agent_id][m] = 1
                \/ fd_evaluations[call.agent_id][m] % 100 = 0)

\* The first FD evaluation selects a model and the following ones, whose
\* series is never longer than the window, reuse it.
C9_ReselectOnlyFirst ==
    Called => \A m \in {"CPU", "Memory"} :
        call.evaluated[m] =>
            (call.need_retrain[m] <=> m \notin DOMAIN call.before.models)

\* The 100th FD evaluation of a metric reused the cached model.
C9_WitnessHundredth ==
    /\ Called
    /\ call.evaluated["CPU"]
    /\ fd_evaluations[call.agent_id]["CPU"] = 100
    /\ ~call.need_retrain["CPU"]

\* ------------------------------------------------------------------------
WindowNow == Len(buffers[call.agent_id]["cpu"])

\* C10: a result holds no DD finding while the agent's window holds fewer
\* than 20 samples and no FD finding while it holds fewer than 30; a sample
\* without peripheral statuses among an agent's first 19 yields a result
\* without findings, with health_score 100 and ensemble_score 0.
C10_ColdStart ==
    Called =>
        /\ WindowNow < 20 => EngineFindings("ecod") = <<>>
        /\ WindowNow < 30 => EngineFindings("arima") = <<>>
        /\ (WindowNow <= 19 /\ Observed = <<>>) =>
              /\ result.detections = <<>>
              /\ result.health_score = 100
              /\ result.ensemble_score.num = 0

\* The 19th sample of an agent, with an alarming DD verdict at hand.
C10_Witness ==
    /\ Called
    /\ WindowNow = 19
    /\ call.run_ecod /\ call.lib.ecod.fail = "none" /\ call.lib.ecod.outlier
    /\ Observed = <<>>
    /\ result.health_score = 100

\* The 20th sample: DD reports, FD is still silent.
C10_WitnessTwentieth ==
    /\ Called
    /\ WindowNow = 20
    /\ EngineFindings("ecod") # <<>>
    /\ EngineFindings("arima") = <<>>

\* ------------------------------------------------------------------------
\* What the health accounting owes for one finding: int(20 x confidence)
\* for CRITICAL, int(10 x confidence) for WARNING, nothing for NORMAL.
OwedDeduction(f) ==
    IF f.severity = "critical" THEN (20 * f.confidence) \div 1000
    ELSE IF f.severity = "warning" THEN (10 * f.confidence) \div 1000
    ELSE 0

RECURSIVE TotalDeduction(_)
TotalDeduction(fs) ==
    IF fs = <<>> THEN 0 ELSE OwedDeduction(fs[1]) + TotalDeduction(Tail(fs))

\* C11: the health_score of every result is an integer between 0 and 100,
\* whatever number and severity of findings the cycle produced.
C11_HealthInRange == Called => result.health_score \in 0..100

\* The findings of one cycle owed more than 100 and the health score is 0.
C11_Witness ==
    /\ Called
    /\ TotalDeduction(result.detections) > 100
    /\ result.health_score = 0

\* ------------------------------------------------------------------------
\* C12 as stated: the ensemble_score of every result is at least 0 and at
\* most 1 (here: at most 1.001), for any DD and FD scores and confidences
\* the detectors produce.
C12_EnsembleInUnitRange ==
    Called =>
        /\ result.ensemble_score.num >= 0
        /\ result.ensemble_score.num <= 1001000 * result.ensemble_score.den

\* An FD finding whose score, residual / threshold, is far above 1.
C12_WitnessForecastScore ==
    /\ Called
    /\ \E i \in 1..Len(EngineFindings("arima")) : EngineFindings("arima")[i].score >= 3000
    /\ result.ensemble_score.num > 1001000 * result.ensemble_score.den

\* ------------------------------------------------------------------------
\* C13: health_score is 100 minus, for every finding of the result (DD, FD,
\* peripheral and ensemble alike), int(20 x confidence) if it is CRITICAL
\* and int(10 x confidence) if it is WARNING, clamped to [0, 100]; a result
\* without WARNING or CRITICAL finding has health_score 100.
C13_HealthFormula ==
    Called =>
        /\ result.health_score =
              Max(0, Min(100, 100 - TotalDeduction(result.detections)))
        /\ (\A i \in 1..Len(result.detections) :
                result.detections[i].severity = "normal") => result.health_score = 100

\* DD, FD and the ensemble finding all deducted, and health is left.
C13_Witness ==
    /\ Called
    /\ \E i \in 1..Len(EngineFindings("ecod")) : EngineFindings("ecod")[i].severity # "normal"
    /\ \E i \in 1..Len(EngineFindings("arima")) : EngineFindings("arima")[i].severity # "normal"
    /\ Len(EngineFindings("ensemble")) = 1
    /\ EngineFindings("ensemble")[1].severity = "critical"
    /\ result.health_score > 0
    /\ result.health_score = 100 - TotalDeduction(result.detections)

\* Findings, all of them NORMAL, and health 100.
C13_WitnessNormal ==
    /\ Called
    /\ Len(result.detections) >= 2
    /\ \A i \in 1..Len(result.detections) : result.detections[i].severity = "normal"
    /\ result.health_score = 100

\* ------------------------------------------------------------------------
\* a/b = c/d for positive b and d, without forming the cross products.
SameFraction(a, b, c, d) ==
    /\ a \div b = c \div d
    /\ (a % b) * d = (c % d) * b

\* C14: with E the mean of score x confidence over the DD findings of a
\* result and A the same over its FD findings, ensemble_score is
\* 0.6 E + 0.4 A when both kinds are present, E when only DD findings are,
\* A when only FD findings are, and 0 when neither is; peripheral findings
\* do not contribute.
C14_EnsembleFormula ==
    Called =>
        LET ne == Len(EngineFindings("ecod"))
            na == Len(EngineFindings("arima"))
            We == Weighted(EngineFindings("ecod"))
            Wa == Weighted(EngineFindings("arima"))
            s  == result.ensemble_score
        IN  /\ s.den > 0
            /\ (ne > 0 /\ na > 0) =>
                  SameFraction(s.num, s.den, 6 * We * na + 4 * Wa * ne, 10 * ne * na)
            /\ (ne > 0 /\ na = 0) => SameFraction(s.num, s.den, We, ne)
            /\ (ne = 0 /\ na > 0) => SameFraction(s.num, s.den, Wa, na)
            /\ (ne = 0 /\ na = 0) => s.num = 0

\* Both engines and the peripheral monitor reported in one cycle.
C14_Witness ==
    /\ Called
    /\ EngineFindings("ecod") # <<>>
    /\ EngineFindings("arima") # <<>>
    /\ EngineFindings("peripheral") # <<>>
    /\ result.ensemble_score.num > 0

\* ------------------------------------------------------------------------
Returned == result.kind = "DetectionResult"

\* C15: the ensemble finding is CRITICAL exactly when ensemble_score > 0.8,
\* WARNING exactly when 0.5 < ensemble_score <= 0.8 and NORMAL otherwise
\* (exactly 0.5 is NORMAL, exactly 0.8 is WARNING); its confidence is 0.9
\* when the score exceeds 0.7 and 0.7 otherwise.
C15_EnsembleSeverity ==
    Returned => \A i \in 1..Len(EngineFindings("ensemble")) :
        LET f == EngineFindings("ensemble")[i]
            s == result.ensemble_score
        IN  /\ f.score = s
            /\ f.severity = "critical" <=> s.num > 800000 * s.den
            /\ f.severity = "warning"
                  <=> (s.num > 500000 * s.den /\ s.num <= 800000 * s.den)
            /\ f.severity = "normal" <=> s.num <= 500000 * s.den
            /\ f.confidence = 900 <=> s.num > 700000 * s.den
            /\ f.confidence = 700 <=> s.num <= 700000 * s.den

\* An ensemble score of exactly 0.8 gave a WARNING ensemble finding.
C15_Witness ==
    /\ Returned
    /\ Len(EngineFindings("ensemble")) = 1
    /\ result.ensemble_score.num = 800000 * result.ensemble_score.den
    /\ EngineFindings("ensemble")[1].severity = "warning"
    /\ EngineFindings("ensemble")[1].confidence = 900

\* An ensemble score of exactly 0.5 gave a NORMAL ensemble finding.
C15_WitnessHalf ==
    /\ Returned
    /\ Len(EngineFindings("ensemble")) = 1
    /\ result.ensemble_score.num = 500000 * result.ensemble_score.den
    /\ EngineFindings("ensemble")[1].severity = "normal"

\* An ensemble score of exactly 0.7 gave confidence 0.7.
C15_WitnessConfidence ==
    /\ Returned
    /\ Len(EngineFindings("ensemble")) = 1
    /\ result.ensemble_score.num = 700000 * result.ensemble_score.den
    /\ EngineFindings("ensemble")[1].confidence = 700

\* An ensemble score above 0.8 gave a CRITICAL ensemble finding.
C15_WitnessCritical ==
    /\ Returned
    /\ Len(EngineFindings("ensemble")) = 1
    /\ EngineFindings("ensemble")[1].severity = "critical"

\* ------------------------------------------------------------------------
\* The place of a finding in a result.
Rank(f) ==
    CASE f.engine = "ecod" /\ f.metric = "Multivariate" -> 1
      [] f.engine = "ecod" /\ f.metric = "CPU"          -> 2
      [] f.engine = "ecod" /\ f.metric = "Memory"       -> 3
      [] f.engine = "ecod" /\ f.metric = "DiskIO"       -> 4
      [] f.engine = "arima" /\ f.metric = "CPU"         -> 5
      [] f.engine = "arima" /\ f.metric = "Memory"      -> 6
      [] f.engine = "peripheral"                        -> 7
      [] f.engine = "ensemble"                          -> 8
      [] OTHER                                          -> 0

\* The peripheral findings owed for the statuses `pairs`, in their order,
\* from the failure counts `counts`.
RECURSIVE OwedRun(_, _)
OwedRun(pairs, counts) ==
    IF pairs = <<>> THEN <<>>
    ELSE LET d == pairs[1][1]
             c == CountOf(counts, d) + 1
         IN  IF pairs[1][2] = FAILED
               THEN (IF c >= 3 THEN <<OwedFinding(d, c)>> ELSE <<>>)
                    \o OwedRun(Tail(pairs), [x \in DOMAIN counts \cup {d} |->
                                                IF x = d THEN c ELSE counts[x]])
             ELSE IF pairs[1][2] = CONNECTED
               THEN OwedRun(Tail(pairs), [x \in DOMAIN counts \cup {d} |->
                                             IF x = d THEN 0 ELSE counts[x]])
             ELSE OwedRun(Tail(pairs), counts)

\* C16: the findings of every result are in this order: the multivariate
\* DD finding, the DD breakdowns for CPU, Memory, DiskIO, the FD findings
\* for CPU then Memory, the peripheral findings in input log order, the
\* ensemble finding last.
C16_FindingOrder ==
    Called =>
        /\ \A i \in 1..Len(result.detections) : Rank(result.detections[i]) > 0
        /\ \A i \in 1..Len(result.detections), j \in 1..Len(result.detections) :
              i < j =>
                  \/ Rank(result.detections[i]) < Rank(result.detections[j])
                  \/ /\ result.detections[i].engine = "peripheral"
                     /\ result.detections[j].engine = "peripheral"
        /\ EngineFindings("peripheral") = OwedRun(Observed, FailureCountsBefore)

\* A result with the four DD findings, the two FD findings, two
\* peripheral findings and the ensemble finding.
C16_Witness ==
    /\ Called
    /\ Len(result.detections) = 9
    /\ Len(EngineFindings("ecod")) = 4
    /\ Len(EngineFindings("arima")) = 2
    /\ Len(EngineFindings("peripheral")) = 2
    /\ result.detections[9].engine = "ensemble"

\* ------------------------------------------------------------------------
\* All the detector holds for agent b.
StateOf(b) ==
    [buffer     |-> buffers[b],
     peripheral |-> peripheral_states[b],
     models     |-> arima_models[b],
     residuals  |-> arima_residuals[b],
     history    |-> score_history[b],
     ecod_model |-> b \in ecod_models]

StateOfNext(b) ==
    [buffer     |-> buffers'[b],
     peripheral |-> peripheral_states'[b],
     models     |-> arima_models'[b],
     residuals  |-> arima_residuals'[b],
     history    |-> score_history'[b],
     ecod_model |-> b \in ecod_models']

\* C17: a detect call for agent A leaves the state of every other agent B
\* as it was: B's buffer channels, failure counts and last statuses, cached
\* models, residual windows and score history.
C17_OtherAgentsUntouched ==
    [][\A b \in DOMAIN buffers :
          b # call'.agent_id => (b \in DOMAIN buffers' /\ StateOfNext(b) = StateOf(b))]_vars

\* A call for one agent was made while another agent had a window past the
\* FD gate, cached models and residuals.
C17_Witness ==
    /\ Called
    /\ \E b \in DOMAIN buffers :
          /\ b # call.agent_id
          /\ Len(buffers[b]["cpu"]) >= 30
          /\ arima_models[b] # <<>>
          /\ arima_residuals[b] # <<>>
          /\ score_history[b] # <<>>

\* A call for one agent was made while another had failure counts.
C17_WitnessPeripheral ==
    /\ Called
    /\ \E b \in DOMAIN buffers :
          /\ b # call.agent_id
          /\ peripheral_states[b].failure_counts # <<>>

\* ------------------------------------------------------------------------
Batched == call.kind = "batch"

\* The model failed for a metric of the batch forecast.
BatchFailed(metric_name) == call.lib[metric_name].fail

\* C18 as stated: batch_arima_forecast returns a dict; when the series has
\* fewer than 30 points, or when the model fails for a metric, the list of
\* that metric is empty and the dict carries an error marker.
C18_BatchErrorMarker ==
    Batched => \A metric_name \in {"cpu", "memory"} :
        (Len(call.data_list) < 30 \/ BatchFailed(metric_name)) =>
            /\ result[metric_name] = <<>>
            /\ "error" \in DOMAIN result

\* What the function does: the list of a metric is empty when the series
\* is short or the model fails for it and has four entries otherwise; the
\* error marker is there exactly when the series is short.
C18_BatchLists ==
    Batched =>
        /\ \A metric_name \in {"cpu", "memory"} :
              IF Len(call.data_list) < 30 \/ BatchFailed(metric_name)
                THEN result[metric_name] = <<>>
                ELSE Len(result[metric_name]) = 4
        /\ "error" \in DOMAIN result <=> Len(call.data_list) < 30

\* The model failed for one metric of a series of 30 points.
C18_WitnessModelFailure ==
    /\ Batched
    /\ Len(call.data_list) = 30
    /\ call.lib.cpu.fail /\ ~call.lib.memory.fail /\ call.forecast_hours = 2
    /\ result.cpu = <<>>
    /\ Len(result.memory) = 4
    /\ "error" \notin DOMAIN result

\* ------------------------------------------------------------------------
\* C19 as stated: every finding of every result (DD multivariate, DD
\* breakdown, FD, peripheral, ensemble) has confidence in [0, 1].
C19_ConfidenceInUnitRange ==
    Called => \A i \in 1..Len(result.detections) :
        /\ result.detections[i].confidence >= 0
        /\ result.detections[i].confidence <= 1000

\* The findings of the forecast detector, the peripheral monitor and the
\* ensemble have confidence in [0, 1], and so have the DD findings of a
\* cycle in which the score of the latest row lay within the scores of the
\* window's rows.
C19_ConfidenceElsewhere ==
    Called => \A i \in 1..Len(result.detections) :
        (\/ result.detections[i].engine # "ecod"
         \/ /\ call.lib.ecod.score >= call.lib.ecod.all_min
            /\ call.lib.ecod.score <= call.lib.ecod.all_max) =>
            /\ result.detections[i].confidence >= 0
            /\ result.detections[i].confidence <= 1000

\* A DD finding with confidence above 1: the score of the latest row was
\* below the least score of the window's rows.
C19_WitnessAboveOne ==
    /\ Called
    /\ call.lib.ecod.score < call.lib.ecod.all_min
    /\ \E i \in 1..Len(EngineFindings("ecod")) :
          /\ EngineFindings("ecod")[i].metric = "Multivariate"
          /\ EngineFindings("ecod")[i].severity = "normal"
          /\ EngineFindings("ecod")[i].confidence > 1000

\* ------------------------------------------------------------------------
\* C20: when detect is called twice in a row with identical input for an
\* agent that had at most 58 samples buffered before the two calls, every
\* buffer channel of the agent grows by exactly 1 in each call (2 in total),
\* and both results carry the same raw_metrics, the sample's own metric
\* values (0 for a metric the sample lacks).
C20_TwiceGrowsByTwo ==
    [][(/\ Called
        /\ call'.kind = "detect"
        /\ call'.data = call.data
        /\ call'.run_ecod = call.run_ecod
        /\ call'.run_arima = call.run_arima
        /\ call.before.window <= 58) =>
           (/\ call'.before.window = call.before.window + 1
            /\ \A c \in Channels :
                  /\ Len(buffers[ExpectedAgent][c]) = call.before.window + 1
                  /\ Len(buffers'[ExpectedAgent][c]) = call.before.window + 2
            /\ result'.raw_metrics = result.raw_metrics
            /\ result.raw_metrics =
                  [CPU |-> ExpectedMetric("CPU"), Memory |-> ExpectedMetric("Memory"),
                   DiskIO |-> ExpectedMetric("DiskIO"),
                   NetworkSent |-> ExpectedNetwork("Sent"),
                   NetworkRecv |-> ExpectedNetwork("Recv")])]_vars

\* Sixty identical calls were made on a new agent: the last two started from
\* a window of 58 samples and left 60 in every channel.
C20_Witness ==
    /\ Called
    /\ odd = 0
    /\ calls = 60
    /\ call.data = steady.data
    /\ call.before.window = 59
    /\ \A c \in Channels : Len(buffers[call.agent_id][c]) = 60
    /\ result.raw_metrics.CPU = ExpectedMetric("CPU")

\* The same after two calls with a sample that lacks every metric.
C20_WitnessSecondCall ==
    /\ Called
    /\ odd = 0
    /\ calls = 2
    /\ call.data = EmptySample
    /\ call.before.window = 1
    /\ \A c \in Channels : Len(buffers["unknown"][c]) = 2
    /\ result.raw_metrics.CPU = 0

\* ------------------------------------------------------------------------
\* What the sample `data` says of the value for channel c, read without the
\* detector's operators.
SampleValue(data, c) ==
    IF c \in {"network_sent", "network_recv"}
      THEN IF "Network" \in DOMAIN data
             THEN LET f == IF c = "network_sent" THEN "Sent" ELSE "Recv"
                  IN  IF f \in DOMAIN data.Network THEN data.Network[f] ELSE 0
             ELSE 0
    ELSE IF c = "timestamps"
      THEN IF "Timestamp" \in DOMAIN data THEN data.Timestamp ELSE ""
    ELSE LET f == CASE c = "cpu" -> "CPU" [] c = "memory" -> "Memory"
                    [] c = "disk_io" -> "DiskIO"
         IN  IF f \in DOMAIN data THEN data[f] ELSE 0

ChannelBefore(a, c) == IF a \in DOMAIN buffers THEN buffers[a][c] ELSE <<>>

\* C21: every detect call appends the sample's value at the end of each of
\* the agent's six channels, after dropping exactly the eldest entry when
\* the channel already held 60, and nothing else is removed or reordered,
\* in this agent's channels or in any other's; so after n calls a channel
\* holds the values of the last min(n, 60) samples in arrival order.
C21_LastSamplesInOrder ==
    [][call'.kind = "detect" =>
          /\ \A c \in Channels :
                buffers'[call'.agent_id][c] =
                    (IF Len(ChannelBefore(call'.agent_id, c)) = 60
                       THEN Tail(ChannelBefore(call'.agent_id, c))
                       ELSE ChannelBefore(call'.agent_id, c))
                    \o <<SampleValue(call'.data, c)>>
          /\ \A b \in DOMAIN buffers :
                b # call'.agent_id => buffers'[b] = buffers[b]]_vars

\* A sample was appended to a full window that held an entry different
\* from the others, now one place nearer to the front.
C21_Witness ==
    /\ Called
    /\ call.before.window = 60
    /\ Len(buffers[call.agent_id]["cpu"]) = 60
    /\ \E i \in 1..40 :
          /\ buffers[call.agent_id]["cpu"][i] # buffers[call.agent_id]["cpu"][60]
          /\ \A j \in 1..60 : j # i =>
                buffers[call.agent_id]["cpu"][j] = buffers[call.agent_id]["cpu"][60]

\* ------------------------------------------------------------------------
\* A status that is neither failed nor connected.
OtherStatus(st) == st # FAILED /\ st # CONNECTED
PeripheralBefore == call.before.peripheral
PeripheralNow == peripheral_states[call.agent_id]

\* C22: a status that is neither failed nor connected changes no failure
\* count and yields no finding, only last_states[device] becomes that
\* status: a device for which the sample reports only such statuses keeps
\* its count (and stays without one if it had none) and gets no finding,
\* and a sample that reports only such statuses leaves failure_counts as a
\* whole unchanged.  A sample whose log entries are all of another body
\* type (or carry none) leaves the agent's whole peripheral state unchanged.
C22_OtherStatusKeepsCounts ==
    Called =>
        /\ \A d \in Devices :
              LET sts == StatusesOf(d)
              IN  (Len(sts) > 0 /\ \A i \in 1..Len(sts) : OtherStatus(sts[i])) =>
                      /\ (d \in DOMAIN FailureCounts) = (d \in DOMAIN FailureCountsBefore)
                      /\ CountOf(FailureCounts, d) = CountOf(FailureCountsBefore, d)
                      /\ FindingsFor(d) = <<>>
                      /\ PeripheralNow.last_states[d] = sts[Len(sts)]
        /\ (\A i \in 1..Len(Observed) : OtherStatus(Observed[i][2])) =>
              /\ FailureCounts = FailureCountsBefore
              /\ EngineFindings("peripheral") = <<>>
        /\ Observed = <<>> => PeripheralNow = PeripheralBefore

\* A device that had failed twice is reported in another status: the count
\* stays, the last status changes.
C22_Witness ==
    /\ Called
    /\ Observed = << <<"printer", "standby">> >>
    /\ CountOf(FailureCountsBefore, "printer") = 2
    /\ PeripheralBefore.last_states["printer"] = FAILED
    /\ FailureCounts["printer"] = 2
    /\ PeripheralNow.last_states["printer"] = "standby"
    /\ EngineFindings("peripheral") = <<>>

\* A log entry of another body type that names a failed printer left the
\* peripheral state as it was.
C22_WitnessOtherBody ==
    /\ Called
    /\ Carries("Logs")
    /\ Len(call.data.Logs) = 1
    /\ "BodyType" \in DOMAIN call.data.Logs[1]
    /\ call.data.Logs[1].BodyType = "transaction"
    /\ CountOf(FailureCountsBefore, "printer") = 2
    /\ PeripheralNow = PeripheralBefore

\* ------------------------------------------------------------------------
\* The DD step ran on a window of at least 20 samples and raised.
EcodFailed ==
    /\ Called
    /\ call.run_ecod
    /\ WindowNow >= 20
    /\ call.lib.ecod.fail # "none"

\* C23 as stated: when the DD step raises at any point of its execution,
\* the result of that cycle holds no DD finding at all, and the cycle
\* otherwise completes normally.
C23_NoFindingOnFailure ==
    EcodFailed =>
        /\ result.kind = "DetectionResult"
        /\ EngineFindings("ecod") = <<>>

\* When the DD step raises before its first finding is made, the result
\* holds no DD finding; when it raises in the breakdown loop, the result
\* keeps the findings made until then, the multivariate finding first; in
\* both cases the cycle returns a result and the forecast detector runs.
C23_FindingsUntilFailure ==
    EcodFailed =>
        /\ result.kind = "DetectionResult"
        /\ call.lib.ecod.fail \in {"fit", "score", "emit"} => EngineFindings("ecod") = <<>>
        /\ call.lib.ecod.fail \in {"brk0", "brk1", "brk2"} =>
              /\ Len(EngineFindings("ecod")) \in 1..3
              /\ EngineFindings("ecod")[1].metric = "Multivariate"
        /\ (call.run_arima /\ WindowNow >= 30 /\ call.lib.cpu.fail = "none") =>
              EngineFindings("arima") # <<>>

\* The DD step raised in the breakdown loop and the multivariate finding
\* is in the result.
C23_WitnessPartial ==
    /\ EcodFailed
    /\ call.lib.ecod.fail = "brk1"
    /\ Len(EngineFindings("ecod")) = 2
    /\ EngineFindings("ecod")[1].metric = "Multivariate"
    /\ EngineFindings("ecod")[2].metric = "CPU"
    /\ EngineFindings("ensemble") # <<>>

\* ------------------------------------------------------------------------
\* The residual window of the call's agent for a metric, after the call.
ResidualWindow(metric) == arima_residuals[call.agent_id][metric]

RECURSIVE Total(_)
Total(w) == IF w = <<>> THEN 0 ELSE Head(w) + Total(Tail(w))
RECURSIVE TotalOfSquares(_)
TotalOfSquares(w) == IF w = <<>> THEN 0 ELSE Head(w) * Head(w) + TotalOfSquares(Tail(w))

\* n^2 times the variance of the window.
Spread(w) == Len(w) * TotalOfSquares(w) - Total(w) * Total(w)

\* r exceeds k/4 times the threshold owed for window w: max(0.1, 2.5 stdev)
\* for more than 5 residuals, 2 mean otherwise.
ExceedsThreshold(r, w, k) ==
    IF Len(w) > 5
      THEN /\ 40 * r > k
           /\ 64 * r * r * Len(w) * Len(w) > 25 * k * k * Spread(w)
      ELSE 4 * r * Len(w) > 2 * k * Total(w)

\* t, in thousandths, is the threshold owed for window w, rounded down (to
\* tenths where it comes from a standard deviation).
IsThresholdOf(t, w) ==
    IF Len(w) > 5
      THEN IF 625 * Spread(w) <= Len(w) * Len(w) THEN t = 100
           ELSE /\ t % 100 = 0
                /\ (t \div 100) * (t \div 100) * Len(w) * Len(w) <= 625 * Spread(w)
                /\ 625 * Spread(w) < (t \div 100 + 1) * (t \div 100 + 1) * Len(w) * Len(w)
      ELSE /\ t * Len(w) <= 2000 * Total(w)
           /\ 2000 * Total(w) < (t + 1) * Len(w)

\* C24: the threshold of an FD finding is computed from the metric's
\* residual window as it is after the current residual was appended:
\* max(0.1, 2.5 stdev(window)) with more than 5 residuals, 2 mean(window)
\* with 1 to 5; the finding is CRITICAL when the residual exceeds 1.5 times
\* the threshold, WARNING when it exceeds the threshold, NORMAL otherwise.
C24_ForecastThreshold ==
    Called => \A i \in 1..Len(EngineFindings("arima")) :
        LET f == EngineFindings("arima")[i]
            w == ResidualWindow(f.metric)
        IN  /\ Len(w) >= 1
            /\ Last(w) = f.residual
            /\ IsThresholdOf(f.threshold, w)
            /\ f.severity = (IF ExceedsThreshold(f.residual, w, 6) THEN "critical"
                             ELSE IF ExceedsThreshold(f.residual, w, 4) THEN "warning"
                             ELSE "normal")

\* A residual of 4 after five residuals of 1: the window of six has
\* 2.5 stdev = 2.79..., and the finding is a WARNING with threshold 2.7.
C24_Witness ==
    /\ Called
    /\ \E i \in 1..Len(EngineFindings("arima")) :
          /\ EngineFindings("arima")[i].metric = "CPU"
          /\ ResidualWindow("CPU") = <<1, 1, 1, 1, 1, 4>>
          /\ EngineFindings("arima")[i].severity = "warning"
          /\ EngineFindings("arima")[i].threshold = 2700

\* With five residuals the threshold is twice their mean.
C24_WitnessShort ==
    /\ Called
    /\ \E i \in 1..Len(EngineFindings("arima")) :
          /\ EngineFindings("arima")[i].metric = "CPU"
          /\ ResidualWindow("CPU") = <<1, 1, 1, 1, 4>>
          /\ EngineFindings("arima")[i].severity = "warning"
          /\ EngineFindings("arima")[i].threshold = 3200

\* With seven residuals the same residual is CRITICAL.
C24_WitnessCritical ==
    /\ Called
    /\ \E i \in 1..Len(EngineFindings("arima")) :
          /\ EngineFindings("arima")[i].metric = "CPU"
          /\ ResidualWindow("CPU") = <<1, 1, 1, 1, 1, 1, 4>>
          /\ EngineFindings("arima")[i].severity = "critical"

\* ------------------------------------------------------------------------
\* The agent's score history, empty for an agent not seen yet.
HistoryOf(a) == IF a \in DOMAIN score_history THEN score_history[a] ELSE <<>>

\* The number of recorded scores above 0.7.
HighIn(h) == Cardinality({i \in 1..Len(h) : h[i] > 700})

\* The contamination owed for a score history, in thousandths.
OwedContamination(h) ==
    IF Len(h) < 10 THEN 50
    ELSE IF 10 * HighIn(h) > 3 * Len(h) THEN 30
    ELSE IF 100 * HighIn(h) < 5 * Len(h) THEN 70
    ELSE 50

\* C25: the contamination of a DD run, which the multivariate finding
\* carries as its threshold, is determined by the agent's score history as
\* it was before the run: 0.05 with fewer than 10 scores; otherwise, with r
\* the fraction of scores above 0.7, 0.03 when r > 0.3, 0.07 when r < 0.05
\* and 0.05 otherwise.  It is always one of 0.03, 0.05, 0.07.
C25_Contamination ==
    [][call'.kind = "detect" =>
          \A i \in 1..Len(result'.detections) :
              (/\ result'.detections[i].engine = "ecod"
               /\ result'.detections[i].metric = "Multivariate") =>
                  /\ result'.detections[i].threshold
                        = OwedContamination(HistoryOf(call'.agent_id))
                  /\ result'.detections[i].threshold \in {30, 50, 70}]_vars

\* A DD run on a history of at least ten scores of which between 5% and 30%
\* were high used 0.05.
C25_Witness ==
    /\ Called
    /\ Len(HistoryOf(call.agent_id)) \in 12..20
    /\ HighIn(SubSeq(HistoryOf(call.agent_id), 1, Len(HistoryOf(call.agent_id)) - 1)) = 1
    /\ EngineFindings("ecod") # <<>>
    /\ EngineFindings("ecod")[1].threshold = 50

\* Many high scores: 0.03.
C25_WitnessStrict ==
    /\ Called
    /\ Len(HistoryOf(call.agent_id)) >= 12
    /\ EngineFindings("ecod") # <<>>
    /\ EngineFindings("ecod")[1].threshold = 30

\* Hardly any high score: 0.07.
C25_WitnessLoose ==
    /\ Called
    /\ Len(HistoryOf(call.agent_id)) >= 12
    /\ EngineFindings("ecod") # <<>>
    /\ EngineFindings("ecod")[1].threshold = 70

\* ------------------------------------------------------------------------
\* q2 is q after at most one append to a deque of at most `maxlen` entries.
AtMostOneAppend(q, q2, maxlen) ==
    \/ q2 = q
    \/ /\ Len(q2) = (IF Len(q) = maxlen THEN maxlen ELSE Len(q) + 1)
       /\ SubSeq(q2, 1, Len(q2) - 1) = (IF Len(q) = maxlen THEN Tail(q) ELSE q)

\* C26: after every detect call each agent's score history holds at most
\* 100 entries and each residual window of each (agent, metric) at most 60;
\* a call appends at most one score to the history of its agent, and only
\* when DD ran on a window of at least 20 samples, and leaves the score
\* histories of the other agents alone.
C26_HistoriesBounded ==
    [][call'.kind = "detect" =>
          /\ \A a \in DOMAIN score_history' : Len(score_history'[a]) <= 100
          /\ \A a \in DOMAIN arima_residuals' :
                \A m \in DOMAIN arima_residuals'[a] : Len(arima_residuals'[a][m]) <= 60
          /\ AtMostOneAppend(HistoryOf(call'.agent_id),
                             score_history'[call'.agent_id], 100)
          /\ Len(score_history'[call'.agent_id]) > Len(HistoryOf(call'.agent_id)) =>
                call'.run_ecod /\ Len(buffers'[call'.agent_id]["cpu"]) >= 20
          /\ (~call'.run_ecod \/ Len(buffers'[call'.agent_id]["cpu"]) < 20) =>
                score_history'[call'.agent_id] = HistoryOf(call'.agent_id)
          /\ \A b \in DOMAIN score_history :
                b # call'.agent_id => score_history'[b] = score_history[b]]_vars

\* DD and FD ran on a history of 100 scores and windows of 60 residuals,
\* which stayed at that length.
C26_Witness ==
    /\ Called
    /\ calls >= 125
    /\ Len(score_history[call.agent_id]) = 100
    /\ Len(arima_residuals[call.agent_id]["CPU"]) = 60
    /\ Len(arima_residuals[call.agent_id]["Memory"]) = 60
    /\ EngineFindings("ecod") # <<>>
    /\ EngineFindings("arima") # <<>>

\* A call with DD switched off on a window of more than 20 samples left the
\* score history as it was.
C26_WitnessSkipped ==
    /\ Called
    /\ ~call.run_ecod
    /\ WindowNow >= 25
    /\ Len(score_history[call.agent_id]) = WindowNow - 20

C27_WitnessWithin ==
    /\ Called
    /\ StatusesOf("printer") = <<FAILED, "standby">>
    /\ CountOf(FailureCountsBefore, "printer") = 1
    /\ FailureCounts["printer"] = 2

\* ------------------------------------------------------------------------
\* How many times the forecast detector was evaluated for the call's agent
\* and a metric, this call included.
Evaluations(metric) == fd_evaluations[call.agent_id][metric]

\* C28: the first FD evaluation of an (agent, metric), and any evaluation
\* whose residual window holds the current residual r alone, yields
\* severity NORMAL whatever r is, with threshold 2 r; every FD finding is
\* made on a window that holds at least the current residual, so the
\* default threshold 1.0 of an empty window is never used.
C28_FirstForecastNormal ==
    Called => \A i \in 1..Len(EngineFindings("arima")) :
        LET f == EngineFindings("arima")[i]
            w == ResidualWindow(f.metric)
        IN  /\ Len(w) >= 1
            /\ Last(w) = f.residual
            /\ (Evaluations(f.metric) = 1 \/ Len(w) = 1) =>
                  /\ w = <<f.residual>>
                  /\ f.severity = "normal"
                  /\ f.threshold = 2000 * f.residual

\* The first evaluation missed by 4: the finding is NORMAL with threshold 8.
C28_Witness ==
    /\ Called
    /\ WindowNow = 30
    /\ Evaluations("CPU") = 1
    /\ \E i \in 1..Len(EngineFindings("arima")) :
          /\ EngineFindings("arima")[i].metric = "CPU"
          /\ EngineFindings("arima")[i].residual = 4
          /\ EngineFindings("arima")[i].severity = "normal"
          /\ EngineFindings("arima")[i].threshold = 8000

\* ------------------------------------------------------------------------
\* A later offer was made for the client of peer connection pc.
Superseded(pc) ==
    \E q \in DOMAIN peers : q > pc /\ peers[q].client_id = peers[pc].client_id

\* pc was made by an offer that replaced a registered connection of the same
\* client, no later offer was made for that client, and pc itself has
\* neither failed, nor lost its connection, nor been closed.
LiveReplacement(pc) ==
    /\ peers[pc].replaced # NoPc
    /\ ~Superseded(pc)
    /\ ~peers[pc].isClosed
    /\ peers[pc].connectionState \in {"new", "connected"}

\* C29 as stated: a peer connection that replaced the client's earlier one
\* stays registered whatever the order in which the earlier connection's
\* close task and connectionstatechange handler run: hub.pcs[client_id] is
\* the new connection and the client is in hub.clients.
C29_ReplacementStays ==
    \A pc \in DOMAIN peers :
        LiveReplacement(pc) =>
            /\ peers[pc].client_id \in DOMAIN pcs
            /\ pcs[peers[pc].client_id] = pc
            /\ peers[pc].client_id \in DOMAIN clients

\* The handler of the replaced connection ran after its close and
\* disconnected the client: the new connection is registered no more.
C29_WitnessDeregistered ==
    /\ hub_call.kind = "disconnect"
    /\ \E pc \in DOMAIN peers :
          /\ LiveReplacement(pc)
          /\ hub_call.pc = peers[pc].replaced
          /\ peers[peers[pc].replaced].connectionState = "closed"
          /\ peers[peers[pc].replaced].closing = "done"
          /\ peers[pc].client_id \notin DOMAIN pcs
          /\ peers[pc].client_id \notin DOMAIN clients
          /\ peers[pc].close_tasks = 1

\* ------------------------------------------------------------------------
\* The rooms hub.clients records for client c.
RoomsOf(c) == IF c \in DOMAIN clients THEN client_states[clients[c]].rooms ELSE {}

\* The members hub.room_members records for room r.
MembersOf(r) == IF r \in DOMAIN room_members THEN room_members[r] ELSE {}

\* C30: after any sequence of offers, data-channel openings, join and leave
\* messages and disconnects, client c is in room_members[r] exactly when r
\* is in clients[c].rooms, and room_members holds no empty member set.
C30_MembershipConsistent ==
    /\ \A c \in ClientIds, r \in Rooms : (c \in MembersOf(r)) = (r \in RoomsOf(c))
    /\ \A r \in DOMAIN room_members :
          /\ room_members[r] # {}
          /\ \A c \in room_members[r] : c \in DOMAIN clients /\ r \in RoomsOf(c)
    /\ \A c \in DOMAIN clients : \A r \in RoomsOf(c) : c \in MembersOf(r)

\* One of two members of a room was disconnected: the other is still a
\* member, and the room the first had joined alone is gone.
C30_Witness ==
    /\ hub_call.kind = "disconnect"
    /\ hub_call.client_id = "pos1"
    /\ "pos1" \notin DOMAIN clients
    /\ MembersOf("pulseai") = {"dash1"}
    /\ RoomsOf("dash1") = {"pulseai"}
    /\ "ops" \notin DOMAIN room_members
    /\ \E pc \in DOMAIN peers :
          peers[pc].client_id = "pos1" /\ peers[pc].channel

\* A join arrived on the channel of a connection that had been replaced:
\* the client's new state holds the room, the old state the message
\* handler closed over holds none.
C30_WitnessStaleHandler ==
    /\ hub_call.kind = "message"
    /\ \E pc \in DOMAIN peers :
          /\ hub_call.pc = pc
          /\ Superseded(pc)
          /\ peers[pc].client_id \in DOMAIN clients
          /\ clients[peers[pc].client_id] # peers[pc].st
          /\ client_states[peers[pc].st].rooms = {}
          /\ "ops" \in RoomsOf(peers[pc].client_id)
          /\ peers[pc].client_id \in MembersOf("ops")

\* ------------------------------------------------------------------------
\* Rooms and members as the step leaves them.
RoomsOfNext(c) == IF c \in DOMAIN clients' THEN client_states'[clients'[c]].rooms ELSE {}
MembersOfNext(r) == IF r \in DOMAIN room_members' THEN room_members'[r] ELSE {}

Broadcasts == {"broadcast_room", "broadcast_all"}

\* C31: a step that ends with hub.disconnect(c) leaves c out of channels,
\* pcs and clients and out of the member set of every room, and leaves the
\* rooms, channels and connections registered for every other client as
\* they were; a broadcast_room or broadcast_all that runs while c is not
\* registered again sends nothing to c: whatever it delivers goes to a
\* client with a channel in hub.channels, and a broadcast_room delivers
\* only to members of its room other than the excluded sender.
C31_DisconnectedGetsNothing ==
    [][/\ hub_call'.kind = "disconnect" =>
             /\ hub_call'.client_id \notin DOMAIN channels'
             /\ hub_call'.client_id \notin DOMAIN pcs'
             /\ hub_call'.client_id \notin DOMAIN clients'
             /\ \A r \in DOMAIN room_members' : hub_call'.client_id \notin room_members'[r]
             /\ \A c \in ClientIds \ {hub_call'.client_id} :
                   /\ RoomsOfNext(c) = RoomsOf(c)
                   /\ \A r \in Rooms : (c \in MembersOfNext(r)) = (c \in MembersOf(r))
                   /\ (c \in DOMAIN clients') = (c \in DOMAIN clients)
                   /\ Get(channels', c, NoPc) = Get(channels, c, NoPc)
                   /\ Get(pcs', c, NoPc) = Get(pcs, c, NoPc)
       /\ hub_call'.kind \in Broadcasts =>
             /\ \A c \in ClientIds :
                   (c \notin DOMAIN channels \/ c \notin DOMAIN channels') =>
                       c \notin hub_call'.delivered
             /\ hub_call'.kind = "broadcast_room" =>
                   hub_call'.delivered \subseteq MembersOf(hub_call'.room)
                                                    \ {hub_call'.client_id}
       /\ (hub_call.kind = "disconnect" /\ hub_call'.kind \in Broadcasts) =>
             hub_call.client_id \notin hub_call'.delivered]_vars

\* A broadcast ran after pos1, whose data channel had been open, was
\* disconnected: it reached dash1 alone.
C31_Witness ==
    /\ hub_call.kind = "broadcast_all"
    /\ hub_call.delivered = {"dash1"}
    /\ "pos1" \notin DOMAIN channels
    /\ "pos1" \notin DOMAIN pcs
    /\ "pos1" \notin DOMAIN clients
    /\ "pos1" \notin MembersOf("pulseai")
    /\ MembersOf("pulseai") = {"dash1"}
    /\ \E pc \in DOMAIN peers :
          /\ peers[pc].client_id = "pos1"
          /\ peers[pc].channel
          /\ peers[pc].closing = "done"

\* The same for a room broadcast sent on behalf of the disconnected client.
C31_WitnessRoom ==
    /\ hub_call.kind = "broadcast_room"
    /\ hub_call.room = "pulseai"
    /\ hub_call.client_id = "pos1"
    /\ hub_call.delivered = {"dash1"}
    /\ "pos1" \notin DOMAIN clients
    /\ \E pc \in DOMAIN peers : peers[pc].client_id = "pos1" /\ peers[pc].channel

====
